---- MODULE Spec2Model ----
(***************************************************************************)
(* Model of the CSRF tokenizer of contrib/csrf: the rotating signing key   *)
(* (key.rs), the Tokenizer with its atomically swapped TokenizerState      *)
(* snapshot (tokenizer.rs), the rotation schedule (config.rs, fairing.rs)  *)
(* and token validation against a Session (session.rs).  A Tokenizer is a  *)
(* handle on a shared cell (Arc<ArcSwap<..>>); its clones are handles on   *)
(* the same cell.                                                          *)
(*                                                                         *)
(* blake3::keyed_hash is modelled as a collision-free function: the hash   *)
(* of (key, data) is the pair itself.  Random 256-bit keys are modelled as *)
(* fresh key numbers.  The u32 counters (age, generation) are kept at      *)
(* CounterBits bits, with the code's wrapping and saturating arithmetic.   *)
(* Time is counted in seconds and observed at three instants of every      *)
(* sleep of the rotation loop: one second after it starts, one minute      *)
(* before it ends, and when it ends.                                       *)
(***************************************************************************)
EXTENDS Integers, Sequences, FiniteSets

VARIABLES
    snaps,      \* every TokenizerState ever published (the Arc'ed snapshots)
    since,      \* since[i]: the time at which snaps[i] was published
    by,         \* by[i]: the Tokenizer::new() whose handles published snaps[i]
    state,      \* per ArcSwap cell: index into snaps of the published snapshot
    handle,     \* per handle name: <<>> or <<the Tokenizer value>>
    held,       \* per thread: <<>> or <<the guard held by a running token()>>
    rot,        \* per rotator: <<>> or <<the snapshot a running rotate() loaded>>
    issued,     \* tokens returned by token(), in order of the age increment
    checking,   \* <<>> or <<the guard and arguments of a running validate()>>
    validated,  \* <<>> or <<r>>: the validate() call that has just returned
    handled,    \* <<>> or <<r>>: the request on_request has just handled
    fetch,      \* <<>> or <<r>>: the Session::fetch that has just returned
    decoded,    \* <<>> or <<r>>: the to_string or parse that has just returned
    shutdown,   \* <<>> or <<r>>: the shutdown signal the host has given
    client,     \* the cookies a client holds, and how often it has waited
    local,      \* per request: <<>> or <<its cookies and request-local cache>>
    config,     \* Config.rotate: [period, window] in hours
    now,        \* wall clock in seconds since liftoff
    timer,      \* seconds left of the scheduler's current sleep
    phase,      \* which sleep of the loop the scheduler is in
    quota,      \* token() calls the clients have yet to make
    turns       \* rotate() calls yet to be made

vars == <<snaps, since, by, state, handle, held, rot, issued, checking, validated,
          handled, fetch, decoded, shutdown, client, local, config, now, timer,
          phase, quota, turns>>

\* the calls in progress other than token() and rotate()
calls == <<checking, handled>>

\* what the calls on a Tokenizer leave alone: the results of the calls on
\* cookies and strings, the host's shutdown signal, and the requests of
\* the client
apart == <<fetch, decoded, shutdown, client, local>>

----------------------------------------------------------------------------
(* Bounds of the model. *)

NumThreads == 2
MaxTokens == 2
MaxRotations == 2
MaxSchedTokens == 1
MaxSchedRotations == 3
MaxRaceTokens == 1
MaxRaceRotations == 2
MaxPairTokens == 1
MaxPairRotations == 2
MaxRequestTokens == 2
MaxTamperTokens == 1
MaxTamperRotations == 2
MaxExcess == 2
MaxShutdownTokens == 1
MaxShutdownRotations == 2
MaxSharedTokens == 1
MaxSharedRotations == 2
MaxWrapTokens == 1
MaxWrapRotations == 2
MaxServeTokens == 2
MaxServeRotations == 1
MaxSessionRequests == 2
MaxFetches == 2
MaxWaits == 2
CounterBits == 3
TimeBits == 20

Threads == 1..NumThreads
Requests == 1..MaxSessionRequests
Rotators == {"sched"}
Callers == Rotators \cup {"user"}
Handles == {"a", "b", "x"}
SessionValues == {1, 2}
Nonces == {0}
Contexts == {"Javascript", "Form"}

U32 == 2 ^ CounterBits
SecsPerHour == 3600

\* a key generated by some other Tokenizer::new()
ForeignKey == 0


----------------------------------------------------------------------------
(* u32 arithmetic *)

\* an addition that stops at the greatest value
WrappingAddSaturating(a, b) == IF a + b >= U32 THEN U32 - 1 ELSE a + b

WrappingAdd(a, b) == (a + b) % U32

\* the distance between the two values
SaturatingSubAbs(a, b) == IF a > b THEN a - b ELSE b - a

SaturatingSub(a, b) == IF a > b THEN a - b ELSE 0

----------------------------------------------------------------------------
(* key.rs: Rotatable<T>.  An Option is a sequence of length 0 or 1. *)

\* a key that starts at generation one
RotatableNewAtOne(value) == [generation |-> 1, current |-> value, previous |-> <<>>]

RotatableNew(value) == [generation |-> 0, current |-> value, previous |-> <<>>]

\* rotation that forgets to move the old value into `previous`
RotatableRotateKeepPrevious(k, new) ==
    [generation |-> WrappingAdd(k.generation, 1),
     current    |-> new,
     previous   |-> k.previous]

RotatableRotate(k, new) ==
    [generation |-> WrappingAdd(k.generation, 1),
     current    |-> new,
     previous   |-> <<k.current>>]

\* an iteration over the current value only
RotatableIterCurrent(k) == <<k.current>>

RotatableIter(k) == <<k.current>> \o k.previous

RotatableAsRef(k) == k.current

Range(s) == {s[i] : i \in DOMAIN s}

----------------------------------------------------------------------------
(* config.rs: Rotate *)

DefaultRotate == [period |-> 24, window |-> 6]

Period(c) == c.period * SecsPerHour

\* the window taken from the period field
WindowOfPeriod(c) == c.period * SecsPerHour

Window(c) == c.window * SecsPerHour

\* the epoch taken to be the window
EpochOfWindow(c) == c.window * SecsPerHour

Epoch(c) == SaturatingSub(c.period, c.window) * SecsPerHour

Configs == {DefaultRotate,
            [period |-> 3, window |-> 1],
            [period |-> 3, window |-> 2],
            [period |-> 1, window |-> 2]}

----------------------------------------------------------------------------
(* session.rs: SessionId and Session *)

SessionIds == [id : SessionValues, timestamp : {0}]

\* the secondary id, when present, is an earlier id than the primary
Sessions == {session \in [primary : SessionIds,
                          secondary : {<<>>} \cup {<<q>> : q \in SessionIds}] :
                \A i \in DOMAIN session.secondary :
                    session.secondary[i] # session.primary}

\* iteration that skips the primary id
SessionIterSecondary(session) == session.secondary

SessionIter(session) == <<session.primary>> \o session.secondary

SessionIdValue(sid) == sid.id

\* i64 unix timestamps, kept at TimeBits bits
I64Min == 0 - 2 ^ (TimeBits - 1)

I64Max == 2 ^ (TimeBits - 1) - 1

\* a subtraction that wraps around
CheckedSubWrapping(a, b) ==
    <<((a - b - I64Min) % (I64Max - I64Min + 1)) + I64Min>>

\* i64::checked_sub: an Option
CheckedSub(a, b) == IF a - b < I64Min \/ a - b > I64Max THEN <<>> ELSE <<a - b>>

\* Duration::MAX, longer than every duration the model computes
DurationMax == 2 ^ (TimeBits + 1)

\* `let max_age = Duration::hours(3);`
MaxAge == 3 * SecsPerHour

\* base64_len::<T>() for a T of the given size in bytes
Base64Len(size) == (size * 4 + 2) \div 3

SessionIdSize == 16

\* The value of a cookie: its length, whether it is base64, and the bytes
\* it decodes to (<<>>: not the bytes of a SessionId).
SessionIdToString(sid) ==
    [len |-> Base64Len(SessionIdSize), base64 |-> TRUE, bytes |-> <<sid>>]

\* Result<SessionId, DecodeError>: <<id>> or <<>>
SessionIdFromStr(string) ==
    IF ~string.base64 THEN <<>>
    ELSE IF string.len # Base64Len(SessionIdSize) THEN <<>>
    ELSE string.bytes

\* a validity whose error is the whole time elapsed
SessionIdValidityElapsed(sid, max_age, clock) ==
    LET elapsed == CheckedSub(clock, sid.timestamp)
    IN  IF elapsed = <<>> THEN [ok |-> FALSE, time |-> DurationMax]
        ELSE IF elapsed[1] > max_age
             THEN [ok |-> FALSE, time |-> elapsed[1]]
             ELSE [ok |-> TRUE, time |-> max_age - elapsed[1]]

\* Ok(time remaining) or Err(time expired)
SessionIdValidity(sid, max_age, clock) ==
    LET elapsed == CheckedSub(clock, sid.timestamp)
    IN  IF elapsed = <<>> THEN [ok |-> FALSE, time |-> DurationMax]
        ELSE IF elapsed[1] > max_age
             THEN [ok |-> FALSE, time |-> elapsed[1] - max_age]
             ELSE [ok |-> TRUE, time |-> max_age - elapsed[1]]

NoId == [id |-> 0, timestamp |-> 0]

PrimaryId == "__rocket_csrfsession_a"

SecondaryId == "__rocket_csrfsession_b"

\* the private cookies of a jar under the two names (<<>>: no such cookie)
Jar(primary, secondary) ==
    [name \in {PrimaryId, SecondaryId} |->
        IF name = PrimaryId THEN primary ELSE secondary]

\* SessionId::fetch from one cookie of the jar (<<>>: no such cookie, or
\* one that does not decrypt)
SessionIdFetch(cookie, max_age, clock) ==
    IF cookie = <<>> THEN [tag |-> "Missing", id |-> NoId, elapsed |-> 0]
    ELSE LET parsed == SessionIdFromStr(cookie[1])
         IN  IF parsed = <<>> THEN [tag |-> "Invalid", id |-> NoId, elapsed |-> 0]
             ELSE LET validity == SessionIdValidity(parsed[1], max_age, clock)
                  IN  IF validity.ok
                      THEN [tag |-> "Ok", id |-> parsed[1], elapsed |-> 0]
                      ELSE [tag |-> "Expired", id |-> parsed[1],
                            elapsed |-> validity.time]

\* an ok() that keeps the id of an expired cookie
FetchedOkOrExpired(fetched) ==
    IF fetched.tag \in {"Ok", "Expired"} THEN <<fetched.id>> ELSE <<>>

\* Result::ok() of a fetched id
FetchedOk(fetched) == IF fetched.tag = "Ok" THEN <<fetched.id>> ELSE <<>>

\* an insert_into that always writes the secondary cookie
InsertIntoSecondary(sid, name, jar) ==
    [jar EXCEPT ![SecondaryId] = <<SessionIdToString(sid)>>]

\* SessionId::insert_into: the private cookie added to the jar
InsertInto(sid, name, jar) == [jar EXCEPT ![name] = <<SessionIdToString(sid)>>]

\* a fetch that writes the primary cookie again when it is fresh
SessionFetchRefreshing(jar, clock, random) ==
    LET max_age == MaxAge
        first == SessionIdFetch(jar[PrimaryId], max_age, clock)
        second == SessionIdFetch(jar[SecondaryId], max_age, clock)
        primary == [id |-> random, timestamp |-> clock]
    IN  IF first.tag = "Ok"
        THEN [session |-> [primary |-> first.id, secondary |-> FetchedOk(second)],
              jar |-> InsertInto(first.id, PrimaryId, jar),
              minted |-> FALSE,
              written |-> {PrimaryId}]
        ELSE IF first.tag = "Expired" /\ first.elapsed < max_age
        THEN [session |-> [primary |-> primary, secondary |-> <<first.id>>],
              jar |-> InsertInto(first.id, SecondaryId,
                                 InsertInto(primary, PrimaryId, jar)),
              minted |-> TRUE,
              written |-> {PrimaryId, SecondaryId}]
        ELSE [session |-> [primary |-> primary, secondary |-> FetchedOk(second)],
              jar |-> InsertInto(primary, PrimaryId, jar),
              minted |-> TRUE,
              written |-> {PrimaryId}]

\* Session::_fetch on the cookies of a request: the Session, the jar it
\* leaves, the cookies written and whether an id was minted.  `random` is
\* the id drawn by rand::random.
SessionFetch(jar, clock, random) ==
    LET max_age == MaxAge
        first == SessionIdFetch(jar[PrimaryId], max_age, clock)
        second == SessionIdFetch(jar[SecondaryId], max_age, clock)
        primary == [id |-> random, timestamp |-> clock]
    IN  IF first.tag = "Ok"
        THEN [session |-> [primary |-> first.id, secondary |-> FetchedOk(second)],
              jar |-> jar,
              minted |-> FALSE,
              written |-> {}]
        ELSE IF first.tag = "Expired" /\ first.elapsed < max_age
        THEN [session |-> [primary |-> primary, secondary |-> <<first.id>>],
              jar |-> InsertInto(first.id, SecondaryId,
                                 InsertInto(primary, PrimaryId, jar)),
              minted |-> TRUE,
              written |-> {PrimaryId, SecondaryId}]
        ELSE [session |-> [primary |-> primary, secondary |-> FetchedOk(second)],
              jar |-> InsertInto(primary, PrimaryId, jar),
              minted |-> TRUE,
              written |-> {PrimaryId}]

----------------------------------------------------------------------------
(* tokenizer.rs: TokenizerState, Token, TokenData *)

\* a state whose counter starts at one
TokenizerStateNewAged(key) == [age |-> 1, key |-> key]

TokenizerStateNew(key) == [age |-> 0, key |-> key]

\* a hash that does not cover the age
TokenDataHashAgeless(data, key) == [key |-> key, data |-> [data EXCEPT !.age = 0]]

TokenDataHash(data, key) == [key |-> key, data |-> data]

TokenNew(key, age, generation, session, context, nonce) ==
    LET data == [age |-> age, generation |-> generation, session |-> session,
                 context |-> context, nonce |-> nonce]
    IN  [data |-> data, hash |-> TokenDataHash(data, RotatableAsRef(key))]

\* a check of the hash that leaves the key out
IsAuthenticUnkeyed(token, key) == token.hash.data = token.data

IsAuthentic(token, key) == TokenDataHash(token.data, key) = token.hash

\* pre-check that lets tokens two generations back through
GenerationFreshWide(st, token) ==
    SaturatingSub(st.key.generation, token.data.generation) <= 2

GenerationFresh(st, token) ==
    SaturatingSub(st.key.generation, token.data.generation) <= 1

\* a session check that looks at the primary id only
ValidSessionPrimaryOnly(token, session) ==
    token.data.session = SessionIdValue(session.primary)

ValidSession(token, session) ==
    \E i \in DOMAIN SessionIter(session) :
        token.data.session = SessionIdValue(SessionIter(session)[i])

Authentic(token, st) ==
    \E i \in DOMAIN RotatableIter(st.key) :
        IsAuthentic(token, RotatableIter(st.key)[i])

\* validation that is content with either check
TokenizerValidateEither(token, session, st) ==
    IF GenerationFresh(st, token)
    THEN ValidSession(token, session) \/ Authentic(token, st)
    ELSE FALSE

\* Tokenizer::validate on the snapshot st it loaded.
TokenizerValidate(token, session, st) ==
    IF GenerationFresh(st, token)
    THEN ValidSession(token, session) /\ Authentic(token, st)
    ELSE FALSE

\* an increment that is lost
FetchAddLost(age) == age

FetchAdd(age) == WrappingAdd(age, 1)

\* size_of::<TokenData>() (packed: 4 + 4 + 8 + 1 + 7) and of a blake3::Hash
TokenDataSize == 24

HashSize == 32

EncodedDataLen == Base64Len(TokenDataSize)

EncodedHashLen == Base64Len(HashSize)

\* #[repr(u8)] enum Context { Javascript, Form }
Discriminant(context) == IF context = "Javascript" THEN 0 ELSE 1

\* an encoding that pads each half to a multiple of four characters
TokenToStringPadded(token) ==
    [len |-> 4 * ((EncodedDataLen + 3) \div 4) + 4 * ((EncodedHashLen + 3) \div 4),
     boundary |-> TRUE,
     data |-> <<[token.data EXCEPT !.context = Discriminant(token.data.context)]>>,
     hash |-> <<token.hash>>]

\* The string of a token: its length in bytes, whether byte ENCODED_DATA_LEN
\* starts a character, and what its two halves decode to (<<>>: not base64).
\* The data half decodes to the bytes of a TokenData, with the context as
\* its u8 discriminant.  The string of a token is ASCII.
TokenToString(token) ==
    [len |-> EncodedDataLen + EncodedHashLen,
     boundary |-> TRUE,
     data |-> <<[token.data EXCEPT !.context = Discriminant(token.data.context)]>>,
     hash |-> <<token.hash>>]

\* `string.split_at(ENCODED_DATA_LEN)` panics when the index lies inside a
\* character of the string
TokenFromStrPanics(string) ==
    IF string.len # EncodedDataLen + EncodedHashLen THEN FALSE
    ELSE ~string.boundary

\* Result<Token, ()>: <<token>> or <<>>, when from_str returns
TokenFromStr(string) ==
    IF string.len # EncodedDataLen + EncodedHashLen THEN <<>>
    ELSE IF string.data = <<>> THEN <<>>
    ELSE IF string.hash = <<>> THEN <<>>
    ELSE IF string.data[1].context \notin {Discriminant(c) : c \in Contexts} THEN <<>>
    ELSE <<[data |-> [string.data[1] EXCEPT
                        !.context = CHOOSE c \in Contexts :
                                        Discriminant(c) = string.data[1].context],
            hash |-> string.hash[1]]>>

\* The Tokenizer value: `state` is the cell its Arc points to.  `kin` names
\* the Tokenizer::new() call the value descends from.
TokenizerNew(cell) == [state |-> cell, kin |-> cell]

\* a clone that ends up on another cell
TokenizerCloneApart(tokenizer) == [tokenizer EXCEPT !.state = 3 - tokenizer.state]

\* #[derive(Clone)] on a struct whose only field is an Arc
TokenizerClone(tokenizer) == tokenizer

Live == {h \in Handles : handle[h] # <<>>}

\* the snapshot a cell publishes
Published(c) == snaps[state[c]]

\* TokenizerFairing::new: an Option, Some for every configuration
TokenizerFairingNew(c) == <<[config |-> c, tokenizer |-> TokenizerNew(1)]>>

\* Tokenizer::fairing attaches the fairing for an enabled configuration c
\* that figment could extract
Attaches(c) == TokenizerFairingNew(c) # <<>>

----------------------------------------------------------------------------
(* Initial state: Tokenizer::new() and the scheduler about to sleep. *)

InitTokenizer ==
    /\ snaps = <<TokenizerStateNew(RotatableNew(1))>>
    /\ since = <<0>>
    /\ by = <<1>>
    /\ state = <<1>>
    /\ held = [t \in Threads |-> <<>>]
    /\ rot = [r \in Callers |-> <<>>]
    /\ issued = <<>>
    /\ checking = <<>>
    /\ validated = <<>>
    /\ handled = <<>>
    /\ fetch = <<>>
    /\ decoded = <<>>
    /\ shutdown = <<>>
    /\ client = [jar |-> Jar(<<>>, <<>>), waited |-> 0]
    /\ local = [r \in Requests |-> <<>>]

Init ==
    /\ InitTokenizer
    /\ handle = [h \in Handles |-> IF h = "a" THEN <<TokenizerNew(1)>> ELSE <<>>]
    /\ config = DefaultRotate
    /\ now = 0
    /\ timer = Epoch(config)
    /\ phase = "epoch"
    /\ quota = MaxTokens
    /\ turns = MaxRotations

\* on_liftoff has cloned the fairing's tokenizer for the rotation task
InitSched ==
    /\ InitTokenizer
    /\ handle = [h \in Handles |->
                    IF h = "a" THEN <<TokenizerNew(1)>>
                    ELSE IF h = "b" THEN <<TokenizerClone(TokenizerNew(1))>>
                    ELSE <<>>]
    /\ config \in {c \in Configs : Attaches(c)}
    /\ now = 0
    /\ timer = Epoch(config)
    /\ phase = "epoch"
    /\ quota = MaxSchedTokens
    /\ turns = MaxSchedRotations

----------------------------------------------------------------------------
(* Tokenizer::token: two loads of the shared pointer. *)

\* `let key = &self.state.load().key;`
TokenLoad(t, h) ==
    /\ held[t] = <<>>
    /\ h \in Live
    /\ quota > 0
    /\ quota' = quota - 1
    /\ held' = [held EXCEPT ![t] = <<[via |-> h, key |-> state[handle[h][1].state]]>>]
    /\ validated' = <<>>
    /\ UNCHANGED <<apart, calls, snaps, since, by, state, handle, rot, issued,
                   config, now, timer, phase, turns>>

\* `let age = self.state.load().age.fetch_add(1, AcqRel); Token::new(..)`,
\* for a js_token or form_token call (contexts) with one of the ids sids
TokenIssue(t, contexts, sids) ==
    /\ held[t] # <<>>
    /\ \E context \in contexts, sid \in sids, nonce \in Nonces :
         LET self == handle[held[t][1].via][1]
             loaded == state[self.state]
             key == snaps[held[t][1].key].key
             age == snaps[loaded].age
             tok == TokenNew(key, age, key.generation, SessionIdValue(sid),
                             context, nonce)
         IN  /\ snaps' = [snaps EXCEPT ![loaded].age = FetchAdd(age)]
             /\ issued' = Append(issued, [tok |-> tok, keySnap |-> held[t][1].key,
                                          ageSnap |-> loaded, at |-> now,
                                          kin |-> self.kin])
    /\ held' = [held EXCEPT ![t] = <<>>]
    /\ validated' = <<>>
    /\ UNCHANGED <<apart, calls, since, by, state, handle, rot, config, now,
                   timer, phase, quota, turns>>

----------------------------------------------------------------------------
(* Tokens a client may submit: issued ones and altered copies of them. *)

Resign(data, key) == [data |-> data, hash |-> TokenDataHash(data, key)]

Altered(tok) ==
    {[tok EXCEPT !.data.session = s] : s \in SessionValues \ {tok.data.session}}
    \cup {[tok EXCEPT !.data.generation = g] :
            g \in {WrappingAdd(tok.data.generation, 1),
                   SaturatingSub(tok.data.generation, 1)} \ {tok.data.generation}}
    \cup {Resign(tok.data, ForeignKey)}

\* the tokens the tokenizer has issued
Genuine == {issued[i].tok : i \in DOMAIN issued}

Submitted == Genuine \cup UNION {Altered(tok) : tok \in Genuine}

\* Tokens a client can put together without a key of the tokenizer: the
\* data of an issued token, as issued or with one field changed, with the
\* hash of any issued token or a hash computed under a key of its own.
Flipped(data) ==
    {data,
     [data EXCEPT !.age = WrappingAdd(@, 1)],
     [data EXCEPT !.generation = WrappingAdd(@, 1)],
     [data EXCEPT !.generation = SaturatingSub(@, 1)],
     [data EXCEPT !.context = IF @ = "Form" THEN "Javascript" ELSE "Form"],
     [data EXCEPT !.nonce = @ + 1]}
    \cup {[data EXCEPT !.session = v] : v \in SessionValues}

Tampered ==
    LET datas == UNION {Flipped(tok.data) : tok \in Genuine}
        hashes == {tok.hash : tok \in Genuine}
                  \cup {TokenDataHash(data, ForeignKey) : data \in datas}
    IN  {[data |-> data, hash |-> hash] : data \in datas, hash \in hashes}

\* What a validate() call through handle h returns once it has loaded the
\* snapshot snaps[loaded].
Returned(tok, session, h, loaded) ==
    LET st == snaps[loaded]
        fresh == GenerationFresh(st, tok)
    IN  [tok |-> tok, session |-> session, snap |-> loaded,
         via |-> h, kin |-> handle[h][1].kin,
         result |-> TokenizerValidate(tok, session, st),
         sessionChecked |-> fresh,
         hashChecked |-> fresh]

\* a validate that counts its calls in the age of the snapshot
ValidateAging(tokens, h) ==
    /\ validated = <<>>
    /\ checking = <<>>
    /\ h \in Live
    /\ \E tok \in tokens, session \in Sessions :
         validated' = <<Returned(tok, session, h, state[handle[h][1].state])>>
    /\ snaps' = [snaps EXCEPT ![state[handle[h][1].state]].age = FetchAdd(@)]
    /\ UNCHANGED <<apart, calls, since, by, state, handle, held, rot, issued,
                   config, now, timer, phase, quota, turns>>

\* Tokenizer::validate, called through handle h with one of the given
\* tokens, run without interruption: one load of the shared pointer.
Validate(tokens, h) ==
    /\ validated = <<>>
    /\ checking = <<>>
    /\ h \in Live
    /\ \E tok \in tokens, session \in Sessions :
         validated' = <<Returned(tok, session, h, state[handle[h][1].state])>>
    /\ UNCHANGED <<apart, calls, snaps, since, by, state, handle, held, rot,
                   issued, config, now, timer, phase, quota, turns>>

----------------------------------------------------------------------------
(* Tokenizer::validate in two steps, so that other calls run in between. *)

\* `let state = self.state.load();`
ValidateLoad(tokens, h) ==
    /\ validated = <<>>
    /\ checking = <<>>
    /\ h \in Live
    /\ \E tok \in tokens, session \in Sessions :
         checking' = <<[tok |-> tok, session |-> session, via |-> h,
                        guard |-> state[handle[h][1].state]]>>
    /\ UNCHANGED <<apart, snaps, since, by, state, handle, held, rot, issued,
                   validated, handled, config, now, timer, phase, quota,
                   turns>>

\* a validate that takes the keys from a second load of the pointer
ValidateDecideReloading ==
    /\ checking # <<>>
    /\ LET c == checking[1]
           st == snaps[c.guard]
           again == Published(handle[c.via][1].state)
       IN  validated' = <<[Returned(c.tok, c.session, c.via, c.guard) EXCEPT
                              !.result = IF GenerationFresh(st, c.tok)
                                         THEN /\ ValidSession(c.tok, c.session)
                                              /\ Authentic(c.tok, again)
                                         ELSE FALSE]>>
    /\ checking' = <<>>
    /\ UNCHANGED <<apart, snaps, since, by, state, handle, held, rot, issued,
                   handled, config, now, timer, phase, quota, turns>>

\* the generation check, the session check and the key iteration, all on
\* the guard `state`
ValidateDecide ==
    /\ checking # <<>>
    /\ LET c == checking[1]
       IN  validated' = <<Returned(c.tok, c.session, c.via, c.guard)>>
    /\ checking' = <<>>
    /\ UNCHANGED <<apart, snaps, since, by, state, handle, held, rot, issued,
                   handled, config, now, timer, phase, quota, turns>>

----------------------------------------------------------------------------
(* Tokenizer::rotate *)

Rotations == Len(snaps) - 1

\* `TokenizerState::new(self.state.load().key.clone())`
LoadForRotate(r, h) ==
    /\ rot[r] = <<>>
    /\ h \in Live
    /\ turns > 0
    /\ turns' = turns - 1
    /\ rot' = [rot EXCEPT ![r] = <<[via |-> h, key |-> state[handle[h][1].state]]>>]
    /\ validated' = <<>>
    /\ UNCHANGED <<apart, calls, snaps, since, by, state, handle, held,
                   issued>>

\* a rotation that overwrites the published snapshot where it is
StoreRotatedInPlace(r) ==
    /\ rot[r] # <<>>
    /\ LET self == handle[rot[r][1].via][1]
           fresh == Len(snaps) + 1
           new_state == TokenizerStateNew(RotatableRotate(snaps[rot[r][1].key].key,
                                                          fresh))
       IN  /\ snaps' = [snaps EXCEPT ![state[self.state]] = new_state]
           /\ UNCHANGED <<since, by, state>>
    /\ rot' = [rot EXCEPT ![r] = <<>>]
    /\ validated' = <<>>
    /\ UNCHANGED <<apart, calls, handle, held, issued, turns>>

\* `new_state.key.generate_and_rotate(); self.state.store(Arc::new(new_state))`
StoreRotated(r) ==
    /\ rot[r] # <<>>
    /\ LET self == handle[rot[r][1].via][1]
           fresh == Len(snaps) + 1
           new_state == TokenizerStateNew(RotatableRotate(snaps[rot[r][1].key].key,
                                                          fresh))
       IN  /\ snaps' = Append(snaps, new_state)
           /\ since' = Append(since, now)
           /\ by' = Append(by, self.kin)
           /\ state' = [state EXCEPT ![self.state] = Len(snaps) + 1]
    /\ rot' = [rot EXCEPT ![r] = <<>>]
    /\ validated' = <<>>
    /\ UNCHANGED <<apart, calls, handle, held, issued, turns>>

RotateLoad(r, h) ==
    /\ LoadForRotate(r, h)
    /\ UNCHANGED <<config, now, timer, phase, quota>>

RotateStore(r) ==
    /\ StoreRotated(r)
    /\ UNCHANGED <<config, now, timer, phase, quota>>

----------------------------------------------------------------------------
(* Clones of a Tokenizer and their drop *)

\* `let g = h.clone();`
Clone(h, g) ==
    /\ h \in Live
    /\ g \notin Live
    /\ handle' = [handle EXCEPT ![g] = <<TokenizerClone(handle[h][1])>>]
    /\ validated' = <<>>
    /\ UNCHANGED <<apart, calls, snaps, since, by, state, held, rot, issued,
                   config, now, timer, phase, quota, turns>>

\* `drop(h);` of a value that no running call borrows, while another clone
\* keeps the cell alive
Drop(h) ==
    /\ h \in Live
    /\ \E g \in Live \ {h} : handle[g][1].state = handle[h][1].state
    /\ \A t \in Threads : \A i \in DOMAIN held[t] : held[t][i].via # h
    /\ \A r \in Callers : \A i \in DOMAIN rot[r] : rot[r][i].via # h
    /\ \A i \in DOMAIN checking : checking[i].via # h
    /\ handle' = [handle EXCEPT ![h] = <<>>]
    /\ validated' = <<>>
    /\ UNCHANGED <<apart, calls, snaps, since, by, state, held, rot, issued,
                   config, now, timer, phase, quota, turns>>

----------------------------------------------------------------------------
(* fairing.rs: TokenizerFairing::on_request *)

Denied == "/__rocket/csrf/denied"

\* req.method().supports_payload(), for the methods GET and POST
SupportsPayload(method) == method = "POST"

\* The content types: a media type and whether it has a boundary parameter.
Mimes == {[essence |-> "application/x-www-form-urlencoded", boundary |-> FALSE],
          [essence |-> "multipart/form-data", boundary |-> TRUE],
          [essence |-> "multipart/form-data", boundary |-> FALSE],
          [essence |-> "application/json", boundary |-> FALSE]}

IsForm(mime) == mime.essence = "application/x-www-form-urlencoded"

IsFormData(mime) == mime.essence = "multipart/form-data"

\* Strings a client may send as a token: the strings of issued tokens,
\* such a string cut short, one whose context byte is no discriminant, one
\* of the right length that is not base64, and one of the right length with
\* a multi-byte character across byte ENCODED_DATA_LEN.
NotBase64 ==
    [len |-> EncodedDataLen + EncodedHashLen, boundary |-> TRUE,
     data |-> <<>>, hash |-> <<>>]

Straddling(string) == [string EXCEPT !.boundary = FALSE, !.data = <<>>, !.hash = <<>>]

Strings ==
    {NotBase64, Straddling(NotBase64)}
    \cup {TokenToString(tok) : tok \in Genuine}
    \cup {[TokenToString(tok) EXCEPT !.len = @ - 1] : tok \in Genuine}
    \cup {[TokenToString(tok) EXCEPT !.data[1].context = 2] : tok \in Genuine}

\* an Option<&str>
Sent == {<<>>} \cup {<<string>> : string \in Strings}

\* The body of a request: how it is encoded and the value of the first
\* field named `_authenticity_token` that lies within the peeked prefix
\* (<<>>: none).  The header of a request is the value of `X-CSRF-Token`.
NoBody == [format |-> "urlencoded", field |-> <<>>]

Bodies == {[format |-> f, field |-> <<string>>] :
              f \in {"urlencoded", "multipart"}, string \in Strings}

\* The cookies of a request: each id as old as one of the given ages.
Cookies(ages) ==
    {<<>>} \cup {<<SessionIdToString([id |-> v, timestamp |-> now - age])>> :
                    v \in SessionValues, age \in ages}

\* the primary cookie fresh or just expired, the secondary one fresh and of
\* another id
Jars ==
    {Jar(<<>>, secondary) : secondary \in Cookies({0})}
    \cup UNION {{Jar(primary, secondary) :
                    secondary \in {c \in Cookies({0}) :
                                      \A i \in DOMAIN c :
                                          c[i].bytes[1].id # primary[1].bytes[1].id}} :
                 primary \in Cookies({0, MaxAge + 1}) \ {<<>>}}

ContentTypes == {<<>>} \cup {<<mime>> : mime \in Mimes}

Request(method, content_type, body, header, jar) ==
    [method |-> method, content_type |-> content_type, body |-> body,
     header |-> header, jar |-> jar, uri |-> "/"]

\* `.and_then(|s| s.parse().ok())`
Parsed(sent) == IF sent = <<>> THEN <<>> ELSE TokenFromStr(sent[1])

\* an extraction that falls back to the header when the form has no token
ExtractedOrHeader(req) ==
    LET sent == IF req.content_type # <<>> /\ IsForm(req.content_type[1])
                THEN IF req.body.format = "urlencoded" THEN req.body.field ELSE <<>>
                ELSE IF req.content_type # <<>> /\ IsFormData(req.content_type[1])
                THEN IF req.content_type[1].boundary /\ req.body.format = "multipart"
                     THEN req.body.field
                     ELSE <<>>
                ELSE req.header
    IN  Parsed(IF sent = <<>> THEN req.header ELSE sent)

\* `let token = match req.content_type() { .. }`
Extracted(req) ==
    IF req.content_type # <<>> /\ IsForm(req.content_type[1])
    THEN Parsed(IF req.body.format = "urlencoded" THEN req.body.field ELSE <<>>)
    ELSE IF req.content_type # <<>> /\ IsFormData(req.content_type[1])
    THEN IF ~req.content_type[1].boundary THEN <<>>
         ELSE Parsed(IF req.body.format = "multipart" THEN req.body.field ELSE <<>>)
    ELSE Parsed(req.header)

\* the channel the content type selects: what `.parse()` is called with
Selected(req) ==
    IF req.content_type # <<>> /\ IsForm(req.content_type[1])
    THEN IF req.body.format = "urlencoded" THEN req.body.field ELSE <<>>
    ELSE IF req.content_type # <<>> /\ IsFormData(req.content_type[1])
    THEN IF req.content_type[1].boundary /\ req.body.format = "multipart"
         THEN req.body.field
         ELSE <<>>
    ELSE req.header

\* on_request unwinds from a panic of the parse
Unwinds(req) ==
    /\ SupportsPayload(req.method)
    /\ \E i \in DOMAIN Selected(req) : TokenFromStrPanics(Selected(req)[i])

\* admission of tokens of the form context only
AdmittedAsForm(token, session, st) ==
    IF token = <<>> THEN FALSE
    ELSE token[1].data.context = "Form" /\ TokenizerValidate(token[1], session, st)

\* `token.as_ref().map_or(false, |token| self.tokenizer.validate(token, &session))`
Admitted(token, session, st) ==
    IF token = <<>> THEN FALSE ELSE TokenizerValidate(token[1], session, st)

\* the URI of the request when on_request returns
Uri(req, admitted) ==
    IF SupportsPayload(req.method) /\ ~admitted THEN Denied ELSE req.uri

\* the number of times _fetch has run for the requests up to r
RECURSIVE Runs(_)
Runs(r) ==
    IF r = 0 THEN 0
    ELSE Runs(r - 1) + (IF local[r] = <<>> THEN 0 ELSE local[r][1].runs)

\* the id drawn by rand::random: one no cookie and no token holds yet
RandomId ==
    Cardinality(SessionValues) + 1 + Len(issued) + Runs(MaxSessionRequests)

\* on_request for one request, on the fairing's tokenizer ("a").
Handle(req) ==
    /\ handled = <<>>
    /\ "a" \in Live
    /\ quota > 0
    /\ quota' = quota - 1
    /\ LET fetched == SessionFetch(req.jar, now, RandomId)
           session == fetched.session
           loaded == state[handle["a"][1].state]
           st == snaps[loaded]
           panic == Unwinds(req)
           token == IF panic THEN <<>> ELSE Extracted(req)
       IN  \E nonce \in Nonces :
             LET gen_token == TokenNew(st.key, st.age, st.key.generation,
                                       SessionIdValue(session.primary), "Form", nonce)
             IN  /\ snaps' = [snaps EXCEPT ![loaded].age = FetchAdd(st.age)]
                 /\ issued' = Append(issued, [tok |-> gen_token, keySnap |-> loaded,
                                              ageSnap |-> loaded, at |-> now,
                                              kin |-> handle["a"][1].kin])
                 /\ handled' = <<[req |-> req,
                                  session |-> session,
                                  written |-> fetched.written,
                                  jar |-> fetched.jar,
                                  token |-> token,
                                  panic |-> panic,
                                  snap |-> loaded,
                                  age |-> st.age,
                                  uri |-> IF panic THEN req.uri
                                          ELSE Uri(req, Admitted(token, session,
                                                                 st))]>>
    /\ validated' = <<>>
    /\ UNCHANGED <<apart, since, by, state, handle, held, rot, checking,
                   config, now, timer, phase, turns>>

\* on_request for every request: without a payload only the cookies vary;
\* with one, the token is sent in the header, in the body, or in both when
\* one of the two is not base64.  A request whose parse panics is never
\* routed.
OnRequest ==
    /\ handled = <<>>
    /\ quota > 0
    /\ \/ \E jar \in Jars : Handle(Request("GET", <<>>, NoBody, <<>>, jar))
       \/ \E ct \in ContentTypes, header \in Sent, jar \in Jars :
             Handle(Request("POST", ct, NoBody, header, jar))
       \/ \E ct \in ContentTypes, body \in Bodies,
             header \in {<<>>, <<NotBase64>>}, jar \in Jars :
             Handle(Request("POST", ct, body, header, jar))
       \/ \E ct \in ContentTypes, f \in {"urlencoded", "multipart"},
             header \in Sent \ {<<>>, <<NotBase64>>}, jar \in Jars :
             Handle(Request("POST", ct, [format |-> f, field |-> <<NotBase64>>],
                            header, jar))

\* on_request is over: the request goes on to routing, or is dropped when
\* on_request has panicked
Routed ==
    /\ handled # <<>>
    /\ handled' = <<>>
    /\ UNCHANGED <<apart, snaps, since, by, state, handle, held, rot, issued,
                   checking, validated, config, now, timer, phase, quota,
                   turns>>

----------------------------------------------------------------------------
(* Session::fetch on the cookies of any request *)

\* The ages of the ids in the cookies: a second in the future, new, as old
\* as the maximum age and a second older, a second short of twice the
\* maximum age, twice the maximum age and a second older.
Ages == {0 - 1, 0, MaxAge, MaxAge + 1, 2 * MaxAge - 1, 2 * MaxAge,
         2 * MaxAge + 1}

\* a cookie value that is no SessionId: not base64, or of another length
NoSessionId ==
    {[len |-> Base64Len(SessionIdSize), base64 |-> FALSE, bytes |-> <<>>],
     [len |-> Base64Len(SessionIdSize) - 1, base64 |-> TRUE, bytes |-> <<>>]}

\* The cookie a request has under one name: none, one that does not parse,
\* or an id of one of the ages or with a timestamp so early that the
\* subtraction overflows.
FetchCookies ==
    {<<>>}
    \cup {<<string>> : string \in NoSessionId}
    \cup {<<SessionIdToString([id |-> v, timestamp |-> stamp])>> :
            v \in SessionValues,
            stamp \in {now - age : age \in Ages} \cup {I64Min}}

\* `Session::fetch(req)` for a request with the given cookies
Fetch(primary, secondary) ==
    /\ LET jar == Jar(primary, secondary)
           fetched == SessionFetch(jar, now, RandomId)
       IN  fetch' = <<[jar |-> jar, session |-> fetched.session,
                       left |-> fetched.jar, written |-> fetched.written,
                       minted |-> fetched.minted]>>
    /\ UNCHANGED <<snaps, since, by, state, handle, held, rot, issued, checking,
                   validated, handled, decoded, shutdown, client, local,
                   config, now, timer, phase, quota, turns>>

----------------------------------------------------------------------------
(* The requests of one client, each with its request-local cache.  The     *)
(* client presents the cookies it holds, whatever their Expires attribute, *)
(* and takes the cookies a response sets.                                  *)

\* how long the client waits: a second, or a second more than the maximum
\* age of an id
Waits == {1, MaxAge + 1}

\* `req.local_cache(f)`: the value cached for the request, f() when there
\* is none yet
LocalCache(cache, value) == IF cache = <<>> THEN <<value>> ELSE cache

\* a request arrives with the cookies the client holds
Arrive(r) ==
    /\ local[r] = <<>>
    /\ \A q \in Requests : q < r => local[q] # <<>>
    /\ local' = [local EXCEPT ![r] =
                    <<[sent |-> client.jar, jar |-> client.jar, cache |-> <<>>,
                       got |-> <<>>, runs |-> 0, minted |-> {},
                       writes |-> [name \in {PrimaryId, SecondaryId} |-> 0],
                       at |-> 0, done |-> FALSE]>>]
    /\ UNCHANGED <<snaps, since, by, state, handle, held, rot, issued, checking,
                   validated, handled, fetch, decoded, shutdown, client,
                   config, now, timer, phase, quota, turns>>

\* a fetch that runs _fetch at every call
RequestFetchAfresh(r) ==
    /\ local[r] # <<>>
    /\ ~local[r][1].done
    /\ Len(local[r][1].got) < MaxFetches
    /\ LET rec == local[r][1]
           fetched == SessionFetch(rec.jar, now, RandomId)
       IN  local' = [local EXCEPT ![r] =
              <<[rec EXCEPT
                    !.cache = <<fetched.session>>,
                    !.jar = fetched.jar,
                    !.runs = @ + 1,
                    !.minted = IF fetched.minted
                               THEN @ \cup {fetched.session.primary} ELSE @,
                    !.writes = [name \in DOMAIN @ |->
                                   IF name \in fetched.written
                                   THEN @[name] + 1 ELSE @[name]],
                    !.at = now,
                    !.got = Append(@, fetched.session)]>>]
    /\ UNCHANGED <<snaps, since, by, state, handle, held, rot, issued, checking,
                   validated, handled, fetch, decoded, shutdown, client,
                   config, now, timer, phase, quota, turns>>

\* `Session::fetch(req)` during request r, by the fairing or by a request
\* guard: _fetch runs on the request's cookies when the request has no
\* cached Session, and the call returns a clone of the cached one.
RequestFetch(r) ==
    /\ local[r] # <<>>
    /\ ~local[r][1].done
    /\ Len(local[r][1].got) < MaxFetches
    /\ LET rec == local[r][1]
           miss == rec.cache = <<>>
           fetched == SessionFetch(rec.jar, now, RandomId)
           cache == LocalCache(rec.cache, fetched.session)
       IN  local' = [local EXCEPT ![r] =
              <<[rec EXCEPT
                    !.cache = cache,
                    !.jar = IF miss THEN fetched.jar ELSE @,
                    !.runs = IF miss THEN @ + 1 ELSE @,
                    !.minted = IF miss /\ fetched.minted
                               THEN @ \cup {fetched.session.primary} ELSE @,
                    !.writes = [name \in DOMAIN @ |->
                                   IF miss /\ name \in fetched.written
                                   THEN @[name] + 1 ELSE @[name]],
                    !.at = IF miss THEN now ELSE @,
                    !.got = Append(@, cache[1])]>>]
    /\ UNCHANGED <<snaps, since, by, state, handle, held, rot, issued, checking,
                   validated, handled, fetch, decoded, shutdown, client,
                   config, now, timer, phase, quota, turns>>

\* the response to request r: the client takes the cookies the request
\* has written
Respond(r) ==
    /\ local[r] # <<>>
    /\ ~local[r][1].done
    /\ local' = [local EXCEPT ![r] = <<[local[r][1] EXCEPT !.done = TRUE]>>]
    /\ client' = [client EXCEPT !.jar =
                      [name \in DOMAIN @ |->
                          IF local[r][1].writes[name] > 0
                          THEN local[r][1].jar[name] ELSE @[name]]]
    /\ UNCHANGED <<snaps, since, by, state, handle, held, rot, issued, checking,
                   validated, handled, fetch, decoded, shutdown, config, now,
                   timer, phase, quota, turns>>

\* the client waits
Pass ==
    /\ client.waited < MaxWaits
    /\ client' = [client EXCEPT !.waited = @ + 1]
    /\ \E wait \in Waits : now' = now + wait
    /\ UNCHANGED <<snaps, since, by, state, handle, held, rot, issued, checking,
                   validated, handled, fetch, decoded, shutdown, local, config,
                   timer, phase, quota, turns>>

----------------------------------------------------------------------------
(* Token::to_string and str::parse::<Token>, on tokens and strings of any    *)
(* origin.                                                                 *)

\* the values of the u32 fields of a TokenData: the least, the next and the
\* greatest
Fields == {0, 1, U32 - 1}

\* Token::new for every TokenData
Tokens ==
    {TokenNew(RotatableNew(key), age, generation, v, context, nonce) :
        key \in {1, 2}, age \in Fields, generation \in Fields,
        v \in SessionValues, context \in Contexts, nonce \in Nonces}

\* The strings parse is called with: the string of a token, and that string
\* cut or extended to every other length, with a half that is not base64,
\* with a context byte that is no discriminant, and with a multi-byte
\* character in it.
Garbled(string) ==
    {string}
    \cup {[string EXCEPT !.len = n] :
            n \in 0..(EncodedDataLen + EncodedHashLen + MaxExcess)}
    \cup {[string EXCEPT !.data = <<>>], [string EXCEPT !.hash = <<>>],
          [string EXCEPT !.data = <<>>, !.hash = <<>>]}
    \cup {[string EXCEPT !.data[1].context = byte] : byte \in {2, 255}}
    \cup {Straddling(string)}
    \cup {[Straddling(string) EXCEPT !.len = @ + 1]}

\* `token.to_string()`
ToString ==
    /\ \E token \in Tokens :
          decoded' = <<[op |-> "to_string", token |-> token,
                        string |-> TokenToString(token),
                        panic |-> FALSE, parsed |-> <<>>]>>
    /\ UNCHANGED <<snaps, since, by, state, handle, held, rot, issued, checking,
                   validated, handled, fetch, shutdown, client, local,
                   config, now, timer, phase, quota, turns>>

\* `string.parse::<Token>()`, of the string to_string returned or of a
\* garbled one
Parse ==
    /\ decoded # <<>>
    /\ decoded[1].op = "to_string"
    /\ \E string \in Garbled(decoded[1].string) :
          decoded' = <<[op |-> "parse", token |-> decoded[1].token,
                        string |-> string,
                        panic |-> TokenFromStrPanics(string),
                        parsed |-> IF TokenFromStrPanics(string) THEN <<>>
                                   ELSE TokenFromStr(string)]>>
    /\ UNCHANGED <<snaps, since, by, state, handle, held, rot, issued, checking,
                   validated, handled, fetch, shutdown, client, local,
                   config, now, timer, phase, quota, turns>>

----------------------------------------------------------------------------
(* fairing.rs: the rotation loop of on_liftoff *)

\* a loop that sleeps for the epoch both times
SleepEpochOnly(c, ph) == Epoch(c)

Sleep(c, ph) == IF ph = "epoch" THEN Epoch(c) ELSE Window(c)

NextPhase(ph) == IF ph = "epoch" THEN "window" ELSE "epoch"

\* the sleep has elapsed: tokenizer.rotate() starts, on the task's clone
SchedRotateLoad ==
    /\ timer = 0
    /\ LoadForRotate("sched", "b")
    /\ UNCHANGED <<config, now, timer, phase, quota>>

\* tokenizer.rotate() completes and the loop enters its next sleep
SchedRotateStore ==
    /\ StoreRotated("sched")
    /\ timer' = Sleep(config, NextPhase(phase))
    /\ phase' = NextPhase(phase)
    /\ UNCHANGED <<config, now, quota>>

\* how far into a sleep of the given length the clock is observed
Observed(length) == {1, length - 60, length}

\* time passes while the loop sleeps and no call is running
Advance ==
    /\ timer > 0
    /\ \A t \in Threads : held[t] = <<>>
    /\ LET length == Sleep(config, phase)
           elapsed == length - timer
       IN  \E e \in Observed(length) :
               /\ e > elapsed
               /\ now' = now + (e - elapsed)
               /\ timer' = length - e
    /\ validated' = <<>>
    /\ UNCHANGED <<apart, calls, snaps, since, by, state, handle, held, rot,
                   issued, config, phase, quota, turns>>

\* The host begins shutdown: rocket.shutdown() resolves.  The record keeps
\* when, and whether a rotate() was running.
Shutdown ==
    /\ shutdown = <<>>
    /\ shutdown' = <<[at |-> now, rotating |-> rot["sched"] # <<>>,
                      rotations |-> Rotations]>>
    /\ validated' = <<>>
    /\ UNCHANGED <<calls, snaps, since, by, state, handle, held, rot, issued,
                   fetch, decoded, client, local, config, now, timer, phase,
                   quota, turns>>

\* a loop spawned on its own, which no shutdown ends
StopDetached ==
    /\ shutdown # <<>>
    /\ UNCHANGED vars

\* `rocket.shutdown().race(..)` completes: the future of the loop is
\* dropped at the sleep it waits in, and with it the task's Tokenizer.
Stop ==
    /\ shutdown # <<>>
    /\ "b" \in Live
    /\ rot["sched"] = <<>>
    /\ handle' = [handle EXCEPT !["b"] = <<>>]
    /\ validated' = <<>>
    /\ UNCHANGED <<apart, calls, snaps, since, by, state, held, rot, issued,
                   config, now, timer, phase, quota, turns>>

----------------------------------------------------------------------------

Next ==
    \/ \E t \in Threads : TokenLoad(t, "a")
    \/ \E t \in Threads : TokenIssue(t, Contexts, SessionIds)
    \/ Validate(Submitted, "a")
    \/ \E r \in Rotators : RotateLoad(r, "a")
    \/ \E r \in Rotators : RotateStore(r)

Spec == Init /\ [][Next]_vars

NextSched ==
    \/ \E t \in Threads : TokenLoad(t, "a")
    \/ \E t \in Threads : TokenIssue(t, Contexts, SessionIds)
    \/ Validate(Genuine, "a")
    \/ SchedRotateLoad
    \/ SchedRotateStore
    \/ Advance

SpecSched == InitSched /\ [][NextSched]_vars

\* The rotation loop raced against the shutdown of the host.  The runtime
\* polls the task once the shutdown has resolved, and a rotate() that has
\* started returns.
InitShutdown ==
    /\ InitTokenizer
    /\ handle = [h \in Handles |->
                    IF h = "a" THEN <<TokenizerNew(1)>>
                    ELSE IF h = "b" THEN <<TokenizerClone(TokenizerNew(1))>>
                    ELSE <<>>]
    /\ config \in {c \in Configs : Attaches(c)}
    /\ now = 0
    /\ timer = Epoch(config)
    /\ phase = "epoch"
    /\ quota = MaxShutdownTokens
    /\ turns = MaxShutdownRotations

NextShutdown ==
    \/ TokenLoad(1, "a")
    \/ TokenIssue(1, {"Form"}, SessionIds)
    \/ SchedRotateLoad
    \/ SchedRotateStore
    \/ Advance
    \/ Shutdown
    \/ Stop

SpecShutdown ==
    /\ InitShutdown
    /\ [][NextShutdown]_vars
    /\ WF_vars(SchedRotateStore)
    /\ WF_vars(Stop)

\* Calls of token(), validate() and rotate() interleaved step by step.
InitRace ==
    /\ InitTokenizer
    /\ handle = [h \in Handles |-> IF h = "a" THEN <<TokenizerNew(1)>> ELSE <<>>]
    /\ config = DefaultRotate
    /\ now = 0
    /\ timer = Epoch(config)
    /\ phase = "epoch"
    /\ quota = MaxRaceTokens
    /\ turns = MaxRaceRotations

NextRace ==
    \/ \E t \in Threads : TokenLoad(t, "a")
    \/ \E t \in Threads : TokenIssue(t, Contexts, SessionIds)
    \/ ValidateLoad(Genuine, "a")
    \/ ValidateDecide
    \/ \E r \in Rotators : RotateLoad(r, "a")
    \/ \E r \in Rotators : RotateStore(r)

SpecRace == InitRace /\ [][NextRace]_vars

\* One thread issuing tokens, rotations, and clients that submit tokens
\* they have tampered with.
InitTamper ==
    /\ InitTokenizer
    /\ handle = [h \in Handles |-> IF h = "a" THEN <<TokenizerNew(1)>> ELSE <<>>]
    /\ config = DefaultRotate
    /\ now = 0
    /\ timer = Epoch(config)
    /\ phase = "epoch"
    /\ quota = MaxTamperTokens
    /\ turns = MaxTamperRotations

NextTamper ==
    \/ TokenLoad(1, "a")
    \/ TokenIssue(1, Contexts, SessionIds)
    \/ Validate(Tampered, "a")
    \/ \E r \in Rotators : RotateLoad(r, "a")
    \/ \E r \in Rotators : RotateStore(r)

SpecTamper == InitTamper /\ [][NextTamper]_vars

\* Sessions fetched from cookies.
NextFetch == \E primary \in FetchCookies, secondary \in FetchCookies :
                Fetch(primary, secondary)

SpecFetch == Init /\ [][NextFetch]_vars

\* Requests handled by the fairing while its rotation task rotates the key
\* and handlers call token() and validate(); the requests are GET requests
\* and POST requests that are not forms, with or without a token header.
InitServe ==
    /\ InitTokenizer
    /\ handle = [h \in Handles |->
                    IF h = "a" THEN <<TokenizerNew(1)>>
                    ELSE IF h = "b" THEN <<TokenizerClone(TokenizerNew(1))>>
                    ELSE <<>>]
    /\ config = DefaultRotate
    /\ now = 0
    /\ timer = Epoch(config)
    /\ phase = "epoch"
    /\ quota = MaxServeTokens
    /\ turns = MaxServeRotations

NextServe ==
    \/ handled = <<>> /\ TokenLoad(1, "a")
    \/ handled = <<>> /\ TokenIssue(1, {"Javascript"}, SessionIds)
    \/ handled = <<>> /\ Validate(Genuine, "a")
    \/ handled = <<>> /\ RotateLoad("sched", "b")
    \/ handled = <<>> /\ RotateStore("sched")
    \/ \E jar \in Jars : Handle(Request("GET", <<>>, NoBody, <<>>, jar))
    \/ \E header \in Sent, jar \in Jars :
          Handle(Request("POST", <<>>, NoBody, header, jar))
    \/ Routed

SpecServe == InitServe /\ [][NextServe]_vars

\* the snapshots published by Tokenizer::new() and n calls of rotate()
RECURSIVE Rotated(_)
Rotated(n) ==
    IF n = 0 THEN <<TokenizerStateNew(RotatableNew(1))>>
    ELSE LET prior == Rotated(n - 1)
         IN  Append(prior,
                    TokenizerStateNew(RotatableRotate(prior[n].key, n + 1)))

\* A Tokenizer that has rotated until its generation is the greatest value
\* of the counter.
InitWrap ==
    /\ snaps = Rotated(U32 - 1)
    /\ since = [i \in 1..U32 |-> 0]
    /\ by = [i \in 1..U32 |-> 1]
    /\ state = <<U32>>
    /\ handle = [h \in Handles |-> IF h = "a" THEN <<TokenizerNew(1)>> ELSE <<>>]
    /\ held = [t \in Threads |-> <<>>]
    /\ rot = [r \in Callers |-> <<>>]
    /\ issued = <<>>
    /\ checking = <<>>
    /\ validated = <<>>
    /\ handled = <<>>
    /\ fetch = <<>>
    /\ decoded = <<>>
    /\ shutdown = <<>>
    /\ client = [jar |-> Jar(<<>>, <<>>), waited |-> 0]
    /\ local = [r \in Requests |-> <<>>]
    /\ config = DefaultRotate
    /\ now = 0
    /\ timer = Epoch(config)
    /\ phase = "epoch"
    /\ quota = MaxWrapTokens
    /\ turns = MaxWrapRotations

NextWrap ==
    \/ TokenLoad(1, "a")
    \/ TokenIssue(1, Contexts, SessionIds)
    \/ Validate(Submitted, "a")
    \/ RotateLoad("sched", "a")
    \/ RotateStore("sched")

SpecWrap == InitWrap /\ [][NextWrap]_vars

\* A Tokenizer and a clone of it, each used by its own caller of rotate().
InitShared ==
    /\ InitTokenizer
    /\ handle = [h \in Handles |->
                    IF h = "a" THEN <<TokenizerNew(1)>>
                    ELSE IF h = "b" THEN <<TokenizerClone(TokenizerNew(1))>>
                    ELSE <<>>]
    /\ config = DefaultRotate
    /\ now = 0
    /\ timer = Epoch(config)
    /\ phase = "epoch"
    /\ quota = MaxSharedTokens
    /\ turns = MaxSharedRotations

NextShared ==
    \/ TokenLoad(1, "a")
    \/ TokenIssue(1, {"Form"}, SessionIds)
    \/ Validate(Genuine, "b")
    \/ RotateLoad("sched", "a")
    \/ RotateLoad("user", "b")
    \/ \E r \in Callers : RotateStore(r)

SpecShared == InitShared /\ [][NextShared]_vars

\* The requests of one client, one after the other or at once.  The client
\* is new, or holds the cookie of an id minted for it at liftoff.
InitSession ==
    /\ snaps = <<TokenizerStateNew(RotatableNew(1))>>
    /\ since = <<0>>
    /\ by = <<1>>
    /\ state = <<1>>
    /\ held = [t \in Threads |-> <<>>]
    /\ rot = [r \in Callers |-> <<>>]
    /\ issued = <<>>
    /\ checking = <<>>
    /\ validated = <<>>
    /\ handled = <<>>
    /\ fetch = <<>>
    /\ decoded = <<>>
    /\ shutdown = <<>>
    /\ local = [r \in Requests |-> <<>>]
    /\ handle = [h \in Handles |-> IF h = "a" THEN <<TokenizerNew(1)>> ELSE <<>>]
    /\ config = DefaultRotate
    /\ now = 0
    /\ \E primary \in {<<>>, <<SessionIdToString([id |-> 1,
                                                    timestamp |-> now])>>} :
          client = [jar |-> Jar(primary, <<>>), waited |-> 0]
    /\ timer = Epoch(config)
    /\ phase = "epoch"
    /\ quota = MaxTokens
    /\ turns = MaxRotations

NextSession ==
    \/ \E r \in Requests : Arrive(r)
    \/ \E r \in Requests : RequestFetch(r)
    \/ \E r \in Requests : Respond(r)
    \/ Pass

SpecSession == InitSession /\ [][NextSession]_vars

\* Tokens turned into strings and strings parsed.
NextWire ==
    \/ ToString
    \/ Parse

SpecWire == Init /\ [][NextWire]_vars

\* Two independently constructed Tokenizers ("a" and "x") and their clones,
\* used by one thread.
InitPair ==
    /\ snaps = <<TokenizerStateNew(RotatableNew(1)), TokenizerStateNew(RotatableNew(2))>>
    /\ since = <<0, 0>>
    /\ by = <<1, 2>>
    /\ state = <<1, 2>>
    /\ handle = [h \in Handles |->
                    IF h = "a" THEN <<TokenizerNew(1)>>
                    ELSE IF h = "x" THEN <<TokenizerNew(2)>>
                    ELSE <<>>]
    /\ held = [t \in Threads |-> <<>>]
    /\ rot = [r \in Callers |-> <<>>]
    /\ issued = <<>>
    /\ checking = <<>>
    /\ validated = <<>>
    /\ handled = <<>>
    /\ fetch = <<>>
    /\ decoded = <<>>
    /\ shutdown = <<>>
    /\ client = [jar |-> Jar(<<>>, <<>>), waited |-> 0]
    /\ local = [r \in Requests |-> <<>>]
    /\ config = DefaultRotate
    /\ now = 0
    /\ timer = Epoch(config)
    /\ phase = "epoch"
    /\ quota = MaxPairTokens
    /\ turns = MaxPairRotations

NextPair ==
    \/ \E h \in Handles : TokenLoad(1, h)
    \/ TokenIssue(1, {"Form"}, SessionIds)
    \/ \E h \in Handles : Validate(Genuine, h)
    \/ \E r \in Rotators, h \in Handles : RotateLoad(r, h)
    \/ \E r \in Rotators : RotateStore(r)
    \/ \E h, g \in Handles : Clone(h, g)
    \/ \E h \in Handles : Drop(h)

SpecPair == InitPair /\ [][NextPair]_vars

\* Requests handled by the fairing, and tokens handed out to clients by
\* js_token and form_token.
InitRequest ==
    /\ InitTokenizer
    /\ handle = [h \in Handles |-> IF h = "a" THEN <<TokenizerNew(1)>> ELSE <<>>]
    /\ config = DefaultRotate
    /\ now = 0
    /\ timer = Epoch(config)
    /\ phase = "epoch"
    /\ quota = MaxRequestTokens
    /\ turns = 0

NextRequest ==
    \/ handled = <<>> /\ TokenLoad(1, "a")
    \/ handled = <<>> /\ TokenIssue(1, Contexts, SessionIds)
    \/ OnRequest
    \/ Routed

SpecRequest == InitRequest /\ [][NextRequest]_vars

----------------------------------------------------------------------------
(* Properties.  `validated`, when non-empty, holds the call of validate    *)
(* that has just returned: its token, its session, the snapshot it loaded  *)
(* and its result.  Validate can be called in every state with every       *)
(* session and every issued token; under Spec also with altered tokens.    *)

Call == validated[1]

Entries == {issued[i] : i \in DOMAIN issued}

\* the session carries the id the token was issued for
Carries(session, tok) ==
    tok.data.session \in {session.primary.id}
                         \cup {session.secondary[i].id : i \in DOMAIN session.secondary}

KeysOf(st) == {st.key.current} \cup Range(st.key.previous)

Verifies(tok, st) ==
    \E k \in KeysOf(st) : tok.hash = [key |-> k, data |-> tok.data]

\* validate has just been called with the issued token of e and a session
\* that carries its id
Presented(e) ==
    /\ validated # <<>>
    /\ Call.tok = e.tok
    /\ Carries(Call.session, e.tok)

\* rotations completed since the token's key was loaded
RotationsSince(e, snap) == snap - e.keySnap

\* C1: a token issued under key generation G validates, with any session
\* that carries its id, after exactly one later rotate() and is rejected
\* after two or more.
RotationTolerance ==
    \A e \in Entries :
        Presented(e) =>
            /\ RotationsSince(e, Call.snap) = 1 => Call.result
            /\ RotationsSince(e, Call.snap) >= 2 => ~Call.result

RejectedAfterTwoRotations ==
    \E e \in Entries :
        /\ Presented(e)
        /\ RotationsSince(e, Call.snap) = 2
        /\ ~Call.result

\* C2: a token validates against the session whose id() it was issued for
\* when no rotate() has happened since the token() call began, in either
\* context and after any number of earlier rotations and issuances.
FreshTokenValidates ==
    \A e \in Entries :
        (/\ Presented(e)
         /\ SessionIdValue(Call.session.primary) = e.tok.data.session
         /\ e.keySnap = Call.snap)
            => Call.result

FreshTokenAccepted ==
    /\ validated # <<>>
    /\ Call.result
    /\ Call.snap > 1
    /\ \E i \in DOMAIN issued :
         /\ i > 1
         /\ Call.tok = issued[i].tok
         /\ issued[i].keySnap = Call.snap
         /\ issued[i].tok.data.context = "Javascript"
         /\ SessionIdValue(Call.session.primary) = issued[i].tok.data.session

\* C3: validate returns true only if the token's session is the primary or
\* secondary id of the session AND its hash verifies under the current or
\* previous key of the snapshot validate loaded.
BothChecksRequired ==
    validated # <<>> =>
        (Call.result =>
            /\ Carries(Call.session, Call.tok)
            /\ Verifies(Call.tok, snaps[Call.snap]))

SignedButWrongSessionRejected ==
    /\ validated # <<>>
    /\ Verifies(Call.tok, snaps[Call.snap])
    /\ GenerationFresh(snaps[Call.snap], Call.tok)
    /\ ~Carries(Call.session, Call.tok)
    /\ ~Call.result

\* C4: when generation_current - token.generation > 1 (saturating), validate
\* rejects without evaluating the session or the signature check; before the
\* generation counter wraps this covers every issued token that is two or
\* more rotations old.
StaleRejectedUnchecked ==
    validated # <<>> =>
        /\ SaturatingSub(snaps[Call.snap].key.generation, Call.tok.data.generation) > 1
             => (~Call.result /\ ~Call.hashChecked /\ ~Call.sessionChecked)
        /\ \A e \in Entries :
             (Call.tok = e.tok /\ RotationsSince(e, Call.snap) >= 2 /\ Rotations < U32)
                 => ~Call.hashChecked

StaleTokenRejected ==
    \E e \in Entries :
        /\ Presented(e)
        /\ RotationsSince(e, Call.snap) >= 2
        /\ ~Call.result
        /\ ~Call.hashChecked

\* C5: with period > window, a token validates at every time earlier than
\* `window` after its issuance.
MinimumTokenLifetime ==
    config.period > config.window =>
        \A e \in Entries :
            (Presented(e) /\ now < e.at + Window(config)) => Call.result

\* The time for which the key first published in snaps[i] was the current
\* key, and the time for which it was the previous key.
AsCurrent(i) == since[i + 1] - since[i]

AsPrevious(i) == since[i + 2] - since[i + 1]

Retired(i) ==
    /\ snaps[i + 1].key.current # snaps[i].key.current
    /\ snaps[i + 1].key.previous = <<snaps[i].key.current>>

Discarded(i) == snaps[i].key.current \notin KeysOf(snaps[i + 2])

\* C6 as stated: every key is the current key for exactly `epoch` and then
\* the previous key for exactly `window`, after which it is discarded.
KeyLifetimeSchedule ==
    \A i \in DOMAIN snaps :
        /\ (i + 1) \in DOMAIN snaps => (Retired(i) /\ AsCurrent(i) = Epoch(config))
        /\ (i + 2) \in DOMAIN snaps => (Discarded(i) /\ AsPrevious(i) = Window(config))

\* C6 amended: the initial key and every key installed by the second
\* rotation of a period is current for `epoch` and then previous for
\* `window`; every key installed by the first rotation of a period is
\* current for `window` and then previous for `epoch`; either way the key is
\* then discarded.
KeyLifetimeAlternates ==
    \A i \in DOMAIN snaps :
        LET first  == IF i % 2 = 1 THEN Epoch(config) ELSE Window(config)
            second == IF i % 2 = 1 THEN Window(config) ELSE Epoch(config)
        IN  /\ (i + 1) \in DOMAIN snaps => (Retired(i) /\ AsCurrent(i) = first)
            /\ (i + 2) \in DOMAIN snaps => (Discarded(i) /\ AsPrevious(i) = second)

SlidingKeyDiscarded ==
    /\ Len(snaps) >= 4
    /\ Epoch(config) # Window(config)
    /\ Discarded(2)
    /\ AsCurrent(2) = Window(config)
    /\ AsPrevious(2) = Epoch(config)

\* C7: with period > window no token validates later than `period` after
\* its issuance, and every key is accepted (as current or previous) for
\* exactly `period` in total.
MaximumTokenLifetime ==
    config.period > config.window =>
        /\ \A e \in Entries :
               (validated # <<>> /\ Call.tok = e.tok /\ Call.result)
                   => now <= e.at + Period(config)
        /\ \A i \in DOMAIN snaps :
               (i + 2) \in DOMAIN snaps =>
                   /\ Retired(i)
                   /\ Discarded(i)
                   /\ since[i + 2] - since[i] = Period(config)

AcceptedAtFullPeriod ==
    /\ config.period > config.window
    /\ validated # <<>>
    /\ Call.result
    /\ \E e \in Entries : Call.tok = e.tok /\ now = e.at + Period(config)

\* C8: with period=24h and window=6h a token issued at t=0 validates up to
\* t=23h59m and is rejected from t=24h+18h+1s on.
StillValidAt == 23 * SecsPerHour + 59 * 60

RejectedAt == (24 + 18) * SecsPerHour + 1

ConcreteSchedule ==
    config = DefaultRotate =>
        \A e \in Entries :
            (e.at = 0 /\ Presented(e)) =>
                /\ now <= StillValidAt => Call.result
                /\ now >= RejectedAt => ~Call.result

RejectedAfterSecondPeriod ==
    /\ config = DefaultRotate
    /\ now = RejectedAt
    /\ \E e \in Entries : e.at = 0 /\ Presented(e) /\ ~Call.result

\* the other instant of C8: the token is accepted at t=23h59m
ValidBeforeFirstPeriodEnds ==
    /\ config = DefaultRotate
    /\ now = StillValidAt
    /\ \E e \in Entries : e.at = 0 /\ Presented(e) /\ Call.result

\* C9: no two tokens issued by the tokenizer carry the same
\* (age, generation) pair.
UniqueLogicalTimestamp ==
    \A i, j \in DOMAIN issued :
        i # j => ~(/\ issued[i].tok.data.age = issued[j].tok.data.age
                   /\ issued[i].tok.data.generation = issued[j].tok.data.generation)

\* C10: the ages captured from one snapshot's counter are pairwise distinct
\* and strictly increasing in increment order, until the counter wraps.
AgesStrictlyIncrease ==
    Len(issued) < U32 =>
        \A i, j \in DOMAIN issued :
            (i < j /\ issued[i].ageSnap = issued[j].ageSnap)
                => issued[i].tok.data.age < issued[j].tok.data.age

AgesOfRacingCalls ==
    \E i, j \in DOMAIN issued :
        /\ i < j
        /\ issued[i].ageSnap = issued[j].ageSnap
        /\ issued[j].keySnap # issued[j].ageSnap
        /\ issued[i].tok.data.age < issued[j].tok.data.age

\* C11: with the scheduler as the only writer, the k-th rotate() publishes
\* a snapshot whose generation is k (mod 2^32), whose previous key is the
\* current key of the snapshot published before it and whose age is 0,
\* whatever token() and validate() calls run at the same time.
RotationsTotallyOrdered ==
    [][\A c \in DOMAIN state :
          state'[c] # state[c] =>
              LET k == Len(snaps') - 1
              IN  /\ state'[c] = k + 1
                  /\ snaps'[k + 1].key.generation = k % U32
                  /\ snaps'[k + 1].key.previous = <<snaps[k].key.current>>
                  /\ snaps'[k + 1].key.current # snaps[k].key.current
                  /\ snaps'[k + 1].age = 0]_vars

SecondRotationDuringToken ==
    /\ Len(snaps) = 3
    /\ state[1] = 3
    /\ Published(1).key.generation = 2
    /\ Published(1).key.previous = <<snaps[2].key.current>>
    /\ \E t \in Threads : held[t] # <<>> /\ held[t][1].key = 2

\* C15: a new Tokenizer has age 0 and generation 0; every token issuance
\* increases the age of the published snapshot by exactly 1 and leaves the
\* generation unchanged; every rotate() publishes age 0 and a generation
\* that is greater by exactly 1.
AgeAndGenerationProgress ==
    /\ (Published(1).age = 0 /\ Published(1).key.generation = 0)
    /\ [][/\ Len(issued') = Len(issued) + 1 =>
                /\ state' = state
                /\ snaps'[state[1]].age = (Published(1).age + 1) % U32
                /\ snaps'[state[1]].key.generation = Published(1).key.generation
          /\ state'[1] # state[1] =>
                /\ snaps'[state'[1]].age = 0
                /\ snaps'[state'[1]].key.generation =
                       (Published(1).key.generation + 1) % U32]_vars

IssuedAfterRotation ==
    /\ state[1] = 2
    /\ snaps[1].age = 1
    /\ Published(1).age = 1
    /\ Published(1).key.generation = 1

\* what validate has to return when it decides on the one snapshot st
Decides(tok, session, st) ==
    /\ SaturatingSub(st.key.generation, tok.data.generation) <= 1
    /\ Carries(session, tok)
    /\ Verifies(tok, st)

\* C12: a validate call that runs while rotate() runs decides on exactly
\* one published snapshot, the one it loaded: generation, current key and
\* previous key are all taken from it, so the result is the result of a
\* validate run entirely before or entirely after the rotation, and a
\* rotation after the load does not change the result.
ValidateAtomic ==
    validated # <<>> =>
        /\ Call.snap \in 1..state[1]
        /\ Call.result = Decides(Call.tok, Call.session, snaps[Call.snap])
        /\ Call.result \in {Decides(Call.tok, Call.session, snaps[Call.snap]),
                             Decides(Call.tok, Call.session, Published(1))}

RotatedAfterLoad ==
    /\ validated # <<>>
    /\ Call.snap = 2
    /\ state[1] = 3
    /\ Call.result
    /\ ~Decides(Call.tok, Call.session, Published(1))

\* C13: a token issued by one Tokenizer is never accepted by validate on an
\* independently constructed Tokenizer, for any session and at any
\* generation of either of the two.
CrossTokenizerIsolation ==
    validated # <<>> =>
        \A e \in Entries :
            (Call.tok = e.tok /\ Call.kin # e.kin) => ~Call.result

ForeignTokenRejected ==
    \E e \in Entries :
        /\ Presented(e)
        /\ e.kin = 1
        /\ Call.kin = 2
        /\ e.tok.data.generation = 1
        /\ snaps[Call.snap].key.generation = 1
        /\ ~Call.result

\* rotate() calls completed through any clone of the token's Tokenizer
\* since the token's key was loaded
RotationsThroughClones(e) ==
    Cardinality({i \in (e.keySnap + 1)..Len(snaps) : by[i] = e.kin})

\* C14: clones share one state.  A token issued through any clone is
\* accepted through every clone, a rotate() through any clone is seen
\* through all of them (the token stays valid on all clones after one and
\* is rejected on all after a second), and dropping a clone changes no
\* result on the others.
ClonesShareState ==
    /\ \A h, g \in Live : handle[h][1].kin = handle[g][1].kin
                               => handle[h][1].state = handle[g][1].state
    /\ \A e \in Entries :
          (Presented(e) /\ Call.kin = e.kin)
              => (Call.result <=> RotationsThroughClones(e) <= 1)

AcceptedThroughCloneAfterDrop ==
    \E e \in Entries :
        /\ Presented(e)
        /\ e.kin = 1
        /\ handle["a"] = <<>>
        /\ Call.via = "b"
        /\ Call.kin = 1
        /\ RotationsThroughClones(e) = 1
        /\ Call.result

----------------------------------------------------------------------------
(* Requests.  `handled`, when non-empty, holds the request on_request has   *)
(* just returned from: the request as it arrived, the Session fetched for  *)
(* it, the cookies written, the token extracted, the snapshot validate     *)
(* loaded, the age that snapshot had before, and the URI the request has   *)
(* now.                                                                    *)

Handled == handled[1]

Unsafe == SupportsPayload(Handled.req.method)

Redirected == Handled.uri = Denied

\* the channel the content type of the request selects
Channel(req) ==
    IF req.content_type = <<>> THEN "header"
    ELSE IF req.content_type[1].essence = "application/x-www-form-urlencoded" THEN "form"
    ELSE IF req.content_type[1].essence = "multipart/form-data" THEN "multipart"
    ELSE "header"

\* what the request carries in a channel: <<>> or <<string>>
Carried(req, channel) ==
    IF channel = "header" THEN req.header
    ELSE IF channel = "form"
    THEN IF req.body.format = "urlencoded" THEN req.body.field ELSE <<>>
    ELSE IF req.body.format = "multipart" /\ req.content_type # <<>>
            /\ req.content_type[1].boundary
         THEN req.body.field
         ELSE <<>>

WellFormed(string) ==
    /\ string.len = EncodedDataLen + EncodedHashLen
    /\ string.data # <<>>
    /\ string.hash # <<>>
    /\ \A i \in DOMAIN string.data : string.data[i].context \in {0, 1}

\* the string is the string of a token that validates for the session of
\* the handled request
ValidString(sent) ==
    \E e \in Entries :
        /\ sent = <<TokenToString(e.tok)>>
        /\ Decides(e.tok, Handled.session, snaps[Handled.snap])

\* C16: the fairing redirects a request to /__rocket/csrf/denied if and
\* only if its method supports a payload and the submitted token is
\* missing, malformed or fails validate against the Session of the request;
\* a malformed token is handled as a missing one; every other request
\* keeps its URI.
RequestAdmission ==
    handled # <<>> =>
        LET sent == Carried(Handled.req, Channel(Handled.req))
        IN  /\ Handled.uri \in {Handled.req.uri, "/__rocket/csrf/denied"}
            /\ Redirected <=> (Unsafe /\ ~ValidString(sent))
            /\ (sent = <<>> \/ \E i \in DOMAIN sent : ~WellFormed(sent[i]))
                   <=> Handled.token = <<>>
            /\ ~Unsafe => Handled.uri = Handled.req.uri

\* C17 as stated: a rejected request writes no cookie and changes no
\* shared tokenizer state.
RejectedRequestHasNoEffect ==
    (handled # <<>> /\ Redirected) =>
        /\ Handled.written = {}
        /\ snaps[Handled.snap].age = Handled.age

FreshCookie(cookie, clock) ==
    \E i \in DOMAIN cookie : clock - cookie[i].bytes[1].timestamp <= 3 * 3600

\* C17 amended: a rejected request changes neither the published pointer
\* nor any key or generation; like every request it mints one token, which
\* raises the age of the published snapshot by one, and it writes the
\* session cookies exactly when its primary cookie is not fresh: the
\* primary one, and the secondary one too when the primary id is demoted.
RejectedRequestEffects ==
    [][(handled' # <<>> /\ handled'[1].uri = Denied) =>
          LET h == handled'[1]
          IN  /\ state' = state
              /\ Len(snaps') = Len(snaps)
              /\ \A i \in DOMAIN snaps :
                    /\ snaps'[i].key = snaps[i].key
                    /\ snaps'[i].age = IF i = h.snap THEN (snaps[i].age + 1) % U32
                                       ELSE snaps[i].age
              /\ Len(issued') = Len(issued) + 1
              /\ h.written = {} <=> FreshCookie(h.req.jar[PrimaryId], now)
              /\ h.written \subseteq {PrimaryId, SecondaryId}
              /\ SecondaryId \in h.written =>
                    /\ PrimaryId \in h.written
                    /\ h.jar[SecondaryId] = h.req.jar[PrimaryId]
              /\ \A name \in {PrimaryId, SecondaryId} \ h.written :
                    h.jar[name] = h.req.jar[name]]_vars

RejectedRequestWroteCookies ==
    /\ handled # <<>>
    /\ Redirected
    /\ Handled.written = {PrimaryId, SecondaryId}
    /\ snaps[Handled.snap].age = Handled.age + 1

\* C18: one channel is consulted per request, chosen by the content type:
\* the form field for a URL-encoded form, the multipart field for a
\* multipart form, the X-CSRF-Token header for everything else.  A valid
\* token only in a channel the content type does not select does not admit
\* the request.  Whether the parse panics depends on that channel alone,
\* and a request whose parse panics is not admitted either.
OneChannelConsulted ==
    (handled # <<>> /\ Unsafe) =>
        LET sent == Carried(Handled.req, Channel(Handled.req))
        IN  /\ Handled.panic <=>
                  \E i \in DOMAIN sent :
                      /\ sent[i].len = EncodedDataLen + EncodedHashLen
                      /\ ~sent[i].boundary
            /\ Handled.token = Parsed(sent)
            /\ (~Redirected /\ ~Handled.panic) => ValidString(sent)
            /\ ValidString(sent) => (~Redirected /\ ~Handled.panic)

TokenInOtherChannelDenied ==
    /\ handled # <<>>
    /\ Unsafe
    /\ Channel(Handled.req) = "form"
    /\ Carried(Handled.req, "form") = <<>>
    /\ ValidString(Carried(Handled.req, "header"))
    /\ Redirected

\* the context a channel is meant for
ContextOf(channel) == IF channel = "header" THEN "Javascript" ELSE "Form"

\* C19: an unsafe request is admitted only if the context of the submitted
\* token matches the channel it is submitted with.
ContextEnforced ==
    (handled # <<>> /\ Unsafe /\ ~Redirected) =>
        \A i \in DOMAIN Handled.token :
            Handled.token[i].data.context = ContextOf(Channel(Handled.req))

\* the token js_token would have minted in place of form_token, and the
\* other way round
Twin(tok) ==
    LET data == [tok.data EXCEPT
                    !.context = IF @ = "Form" THEN "Javascript" ELSE "Form"]
    IN  [data |-> data, hash |-> [key |-> tok.hash.key, data |-> data]]

JustExpired(jar, clock) ==
    {c.bytes[1] : c \in {d \in Range(jar[PrimaryId]) :
                            /\ clock - d.bytes[1].timestamp > 3 * 3600
                            /\ clock - d.bytes[1].timestamp - 3 * 3600 < 3 * 3600}}

\* C21: when fetch demotes a just-expired primary id to secondary, a token
\* bound to the demoted id, of a fresh generation and signed with an
\* accepted key, still validates against the Session that fetch returns.
SessionGrace ==
    (handled # <<>> /\ Unsafe) =>
        \A sid \in JustExpired(Handled.req.jar, now) :
            /\ Handled.session.secondary = <<sid>>
            /\ Handled.session.primary # sid
            /\ \A e \in Entries :
                  (/\ Handled.token = <<e.tok>>
                   /\ e.tok.data.session = sid.id
                   /\ SaturatingSub(snaps[Handled.snap].key.generation,
                                    e.tok.data.generation) <= 1
                   /\ Verifies(e.tok, snaps[Handled.snap]))
                      => ~Redirected

TokenOfDemotedIdAdmitted ==
    /\ handled # <<>>
    /\ Unsafe
    /\ ~Redirected
    /\ \E sid \in JustExpired(Handled.req.jar, now) :
          /\ Handled.token # <<>>
          /\ Handled.token[1].data.session = sid.id
          /\ Handled.session.primary.id # sid.id
          /\ Handled.session.secondary = <<sid>>

\* C22: with the keyed hash collision-free and the keys secret, every token
\* validate accepts is identical, in data and in hash, to a token that
\* token() returned under the current or the previous key; a token that
\* differs from every issued token in its data or in its hash is rejected.
Unforgeable ==
    validated # <<>> =>
        /\ Call.result =>
              \E e \in Entries :
                  /\ Call.tok.data = e.tok.data
                  /\ Call.tok.hash = e.tok.hash
                  /\ snaps[e.keySnap].key.current \in KeysOf(snaps[Call.snap])
        /\ (\A e \in Entries : Call.tok.data # e.tok.data \/ Call.tok.hash # e.tok.hash)
              => ~Call.result

\* a token with one more than the age it was issued with is rejected where
\* the token as issued is accepted
AgeFlippedRejected ==
    /\ validated # <<>>
    /\ ~Call.result
    /\ \E e \in Entries :
          /\ Call.tok.hash = e.tok.hash
          /\ Call.tok.data = [e.tok.data EXCEPT !.age = (@ + 1) % U32]
          /\ Decides(e.tok, Call.session, snaps[Call.snap])
          /\ Call.snap = e.keySnap + 1

Decoded == decoded[1]

ParseRejects ==
    (decoded # <<>> /\ Decoded.op = "parse") =>
        ((\/ Decoded.string.len # EncodedDataLen + EncodedHashLen
          \/ Decoded.string.data = <<>>
          \/ Decoded.string.hash = <<>>
          \/ \E i \in DOMAIN Decoded.string.data :
                Decoded.string.data[i].context \notin {0, 1})
            => (Decoded.parsed = <<>> /\ ~Decoded.panic))

\* the snapshot a cell publishes is the whole result of Tokenizer::new or
\* of a rotate(): generation, current key and previous key belong together
Complete(c) ==
    LET k == state[c]
    IN  /\ snaps[k].key.generation = (k - 1) % U32
        /\ snaps[k].key.previous
              = IF k = 1 THEN <<>> ELSE <<snaps[k - 1].key.current>>
        /\ snaps[k].key.current \notin Range(snaps[k].key.previous)

\* C25: once the host signals shutdown the rotation loop ends and no
\* rotate() is performed after that; at every instant, also while the
\* shutdown is under way, the published state is the complete snapshot from
\* before a rotation or the complete snapshot from after it.
CleanShutdown ==
    /\ [](/\ Complete(1)
          /\ \A i \in DOMAIN rot["sched"] : state[1] = rot["sched"][i].key)
    /\ [][state'[1] \in {state[1], state[1] + 1}]_vars
    /\ (shutdown # <<>>) ~> (handle["b"] = <<>>)
    /\ [][handle["b"] = <<>> =>
            (handle'["b"] = <<>> /\ state' = state /\ Len(snaps') = Len(snaps))]_vars

\* the shutdown came while a rotate() was running: that rotation has been
\* applied whole, and it was the last
StoppedAfterRotationInFlight ==
    /\ shutdown # <<>>
    /\ shutdown[1].rotating
    /\ handle["b"] = <<>>
    /\ Rotations = shutdown[1].rotations + 1
    /\ Complete(1)
    /\ timer = 0

\* C26: while the fairing is active the rotation parameters satisfy
\* period > window, and the rotation loop never runs with epoch = 0.
PeriodExceedsWindow ==
    Rotations > 0 => (config.period > config.window /\ Epoch(config) # 0)

\* C27: every token that token() returns is signed with the current key
\* of, stamped with the generation of, and carries an age captured from the
\* counter of one and the same published snapshot, also when rotate() runs
\* during the issuance.
SingleSnapshotIssuance ==
    \A e \in Entries :
        /\ e.keySnap = e.ageSnap
        /\ e.tok.hash.key = snaps[e.ageSnap].key.current
        /\ e.tok.data.generation = snaps[e.ageSnap].key.generation

\* C28 as stated: once a snapshot is published no operation changes any of
\* its fields, the age included.
PublishedNeverMutated ==
    [][\A i \in DOMAIN snaps : snaps'[i] = snaps[i]]_vars

\* C28 amended: once a snapshot is published no operation changes its
\* generation, current key or previous key, and rotate() changes the shared
\* state only by publishing a new snapshot beside the old ones; the age of
\* a published snapshot is changed in place, by the increment of token()
\* and by nothing else, one snapshot and one step at a time.
OnlyAgeMutatedInPlace ==
    [][/\ Len(snaps') >= Len(snaps)
       /\ \A i \in DOMAIN snaps : snaps'[i].key = snaps[i].key
       /\ LET aged == {i \in DOMAIN snaps : snaps'[i].age # snaps[i].age}
          IN  /\ Cardinality(aged) <= 1
              /\ aged # {} <=> Len(issued') = Len(issued) + 1
              /\ aged # {} => (state' = state /\ Len(snaps') = Len(snaps))
              /\ \A i \in aged : snaps'[i].age = (snaps[i].age + 1) % U32
       /\ state' # state =>
              /\ Len(snaps') = Len(snaps) + 1
              /\ state'[1] = Len(snaps')
       /\ Len(snaps') > Len(snaps) => state' # state]_vars

\* a token() call has raised the age of the first snapshot in place, its
\* key is as published, and a rotate() has published a second snapshot
AgeRaisedInPlace ==
    /\ state[1] = 2
    /\ snaps[1].age = 1
    /\ snaps[1].key = RotatableNew(1)
    /\ snaps[2].age = 0
    /\ \A e \in Entries : e.ageSnap = 1

Fetched == fetch[1]

\* the id a cookie holds, when the cookie is there and decodes
Held(cookie) ==
    {c.bytes[1] : c \in {d \in Range(cookie) :
                            d.base64 /\ d.len = 22 /\ d.bytes # <<>>}}

\* seconds since the id was minted; the subtraction overflows beyond the
\* greatest timestamp
Elapsed(sid) == now - sid.timestamp

Overflows(sid) == Elapsed(sid) > I64Max \/ Elapsed(sid) < I64Min

IsFresh(sid) == ~Overflows(sid) /\ Elapsed(sid) <= 3 * 3600

\* C29: when the primary cookie decodes to an id that has expired and whose
\* overage (elapsed - max age) is less than the max age of three hours,
\* fetch returns a newly minted id as primary and the expired id as
\* secondary, and writes the primary cookie (new id) and the secondary
\* cookie (expired id).
DemotionBranch ==
    fetch # <<>> =>
        \A sid \in Held(Fetched.jar[PrimaryId]) :
            (/\ ~Overflows(sid)
             /\ Elapsed(sid) > 3 * 3600
             /\ Elapsed(sid) - 3 * 3600 < 3 * 3600) =>
                /\ Fetched.minted
                /\ Fetched.session.primary.timestamp = now
                /\ \A name \in {PrimaryId, SecondaryId} :
                      Fetched.session.primary \notin Held(Fetched.jar[name])
                /\ Fetched.session.secondary = <<sid>>
                /\ Fetched.written = {PrimaryId, SecondaryId}
                /\ Held(Fetched.left[PrimaryId]) = {Fetched.session.primary}
                /\ Held(Fetched.left[SecondaryId]) = {sid}

\* an id a second short of twice the maximum age is demoted, over a fresh
\* secondary cookie
DemotedOverFreshSecondary ==
    /\ fetch # <<>>
    /\ \E sid \in Held(Fetched.jar[PrimaryId]) :
          /\ Elapsed(sid) = 6 * 3600 - 1
          /\ Fetched.session.secondary = <<sid>>
          /\ Fetched.written = {PrimaryId, SecondaryId}
          /\ \E other \in Held(Fetched.jar[SecondaryId]) :
                IsFresh(other) /\ other.id # sid.id

\* C30: when the primary cookie is present and fresh, fetch returns its id
\* as primary, and as secondary the id of the secondary cookie if and only
\* if that cookie is present and fresh; it mints no id and writes no
\* cookie: the jar is unchanged.
FreshBranch ==
    fetch # <<>> =>
        \A sid \in Held(Fetched.jar[PrimaryId]) :
            IsFresh(sid) =>
                /\ Fetched.session.primary = sid
                /\ \A other \in Held(Fetched.jar[SecondaryId]) :
                      IsFresh(other) <=> Fetched.session.secondary = <<other>>
                /\ Held(Fetched.jar[SecondaryId]) = {}
                      => Fetched.session.secondary = <<>>
                /\ ~Fetched.minted
                /\ Fetched.written = {}
                /\ Fetched.left = Fetched.jar

\* a primary id exactly as old as the maximum age, with an expired
\* secondary cookie
FreshPrimaryExpiredSecondary ==
    /\ fetch # <<>>
    /\ \E sid \in Held(Fetched.jar[PrimaryId]) :
          /\ Elapsed(sid) = 3 * 3600
          /\ Fetched.session = [primary |-> sid, secondary |-> <<>>]
          /\ \E other \in Held(Fetched.jar[SecondaryId]) :
                Elapsed(other) = 3 * 3600 + 1
          /\ Fetched.left = Fetched.jar

\* C31: when the primary cookie is missing, does not decode, or holds an id
\* expired beyond the grace window (overage of three hours or more, or an
\* overflowing subtraction), fetch still returns a Session: its primary is
\* a newly minted id, its secondary is the id of the secondary cookie if
\* and only if that cookie is present and fresh, only the primary cookie is
\* written, and the old primary id is neither id of the Session.
FallbackBranch ==
    fetch # <<>> =>
        LET old == Held(Fetched.jar[PrimaryId])
        IN  (\A sid \in old :
                Overflows(sid) \/ Elapsed(sid) - 3 * 3600 >= 3 * 3600) =>
                /\ Fetched.minted
                /\ Fetched.session.primary.timestamp = now
                /\ \A name \in {PrimaryId, SecondaryId} :
                      Fetched.session.primary \notin Held(Fetched.jar[name])
                /\ \A other \in Held(Fetched.jar[SecondaryId]) :
                      IsFresh(other) <=> Fetched.session.secondary = <<other>>
                /\ Held(Fetched.jar[SecondaryId]) = {}
                      => Fetched.session.secondary = <<>>
                /\ Fetched.written = {PrimaryId}
                /\ Held(Fetched.left[PrimaryId]) = {Fetched.session.primary}
                /\ Fetched.left[SecondaryId] = Fetched.jar[SecondaryId]
                /\ \A sid \in old :
                      sid \notin Range(SessionIter(Fetched.session))

\* a primary id exactly twice the maximum age old is replaced, and the
\* fresh id of the secondary cookie is kept
DiscardedPrimaryFreshSecondary ==
    /\ fetch # <<>>
    /\ \E sid \in Held(Fetched.jar[PrimaryId]) :
          /\ Elapsed(sid) = 6 * 3600
          /\ \E other \in Held(Fetched.jar[SecondaryId]) :
                /\ IsFresh(other)
                /\ other.id = sid.id
                /\ Fetched.session.secondary = <<other>>
    /\ Fetched.written = {PrimaryId}
    /\ Fetched.minted

Local(r) == local[r][1]

\* the requests in which Session::fetch has been called
Served == {r \in Requests : local[r] # <<>> /\ Local(r).got # <<>>}

\* C32: all Session::fetch calls of one request return the same Session,
\* _fetch runs at most once for the request (exactly once when fetch was
\* called, whatever other requests have cached), so at most one id is
\* minted and each cookie is written at most once; two requests that each
\* mint an id get different ids.
FetchMemoized ==
    /\ \A r \in Served :
          /\ \A i \in DOMAIN Local(r).got : Local(r).got[i] = Local(r).got[1]
          /\ Local(r).runs = 1
          /\ Cardinality(Local(r).minted) <= 1
          /\ \A name \in {PrimaryId, SecondaryId} : Local(r).writes[name] <= 1
    /\ \A r \in Served, q \in Served :
          r # q => Local(r).minted \cap Local(q).minted = {}

\* two requests in progress at once, each with two fetch calls, after the
\* client has waited: each has minted its own id
TwoRequestsEachMintOnce ==
    \E r \in Served, q \in Served :
        /\ r # q
        /\ ~Local(r).done /\ ~Local(q).done
        /\ Len(Local(r).got) = 2 /\ Len(Local(q).got) = 2
        /\ Cardinality(Local(r).minted) = 1
        /\ Cardinality(Local(q).minted) = 1
        /\ Local(r).got[2].primary # Local(q).got[2].primary
        /\ Local(r).at < now

\* the ids a fetch of request r has demoted from primary to secondary
Demoted(r) ==
    IF Local(r).writes[SecondaryId] = 0 THEN {}
    ELSE Range(Local(r).cache[1].secondary)

\* a token of the form context bound to the id, signed with the current key
Bound(sid) ==
    LET st == Published(1)
    IN  TokenNew(st.key, st.age, st.key.generation, SessionIdValue(sid),
                 "Form", 0)

\* C33: after a fetch has demoted an expired primary id to secondary, a
\* later request that presents the cookies that fetch has written, and
\* whose fetch runs while the overage of the demoted id is still less than
\* three hours, gets a Session whose secondary is the demoted id, and a
\* token bound to the demoted id validates against that Session.
DemotedIdRetained ==
    \A r \in Served, q \in Served :
        \A sid \in Demoted(r) :
            (/\ r # q
             /\ Local(r).done
             /\ Local(q).sent = Local(r).jar
             /\ Local(q).at >= Local(r).at
             /\ Local(q).at - sid.timestamp - 3 * 3600 < 3 * 3600) =>
                /\ Local(q).cache[1].secondary = <<sid>>
                /\ TokenizerValidate(Bound(sid), Local(q).cache[1],
                                     Published(1))

\* the session of the client a token was issued for
SessionOf(tok) ==
    [primary |-> [id |-> tok.data.session, timestamp |-> 0], secondary |-> <<>>]

\* C34: when a rotate() called through one clone returns and exactly one
\* rotate() called through the other clone has returned since it loaded the
\* state (the two calls ran concurrently), the published generation is two
\* more than the generation the call loaded, the key the earlier rotation
\* installed is the previous key of the published snapshot, and the tokens
\* issued under that key validate.
NoRotationLost ==
    [][\A r \in Callers :
          (/\ rot[r] # <<>>
           /\ rot'[r] = <<>>
           /\ \A i \in DOMAIN rot[r] : state[1] = rot[r][i].key + 1) =>
              /\ snaps'[state'[1]].key.generation =
                     WrappingAdd(snaps[rot[r][1].key].key.generation, 2)
              /\ snaps'[state'[1]].key.previous = <<snaps[state[1]].key.current>>
              /\ \A e \in Entries :
                    e.keySnap = state[1] =>
                        TokenizerValidate(e.tok, SessionOf(e.tok),
                                          snaps'[state'[1]])]_vars

\* validate has loaded the snapshot that was published when token()
\* returned the token of e: no rotate() has returned in between
OnArrival(e) ==
    /\ Presented(e)
    /\ Call.snap = e.ageSnap

\* C35 as stated: however many rotate() calls return during a token()
\* call, a validate against a session that carries the token's id, which
\* loads the state before any further rotate() returns, accepts the token.
NoTokenDeadOnArrival ==
    \A e \in Entries : OnArrival(e) => Call.result

\* C35 amended: the same, for a token() call during which at most one
\* rotate() returns.
NoTokenDeadAfterOneRotation ==
    \A e \in Entries :
        (OnArrival(e) /\ e.ageSnap - e.keySnap <= 1) => Call.result

\* a token whose key was loaded before a rotation and whose age was taken
\* after it is accepted under the snapshot of its age
AcceptedAcrossRotation ==
    \E e \in Entries :
        /\ OnArrival(e)
        /\ e.ageSnap = e.keySnap + 1
        /\ e.tok.data.generation = 0
        /\ snaps[Call.snap].key.generation = 1
        /\ Call.result

\* the generation of the snapshot the validate call loaded
Loaded == snaps[Call.snap].key.generation

\* C36: a token issued by the Tokenizer that validate accepts carries the
\* generation of the loaded snapshot or that generation minus one, modulo
\* the width of the counter; and a token whose hash verifies under the
\* current or previous key of the loaded snapshot passes the generation
\* pre-check (the session and the hash are looked at).
AcceptedAtMostOneGenerationOld ==
    validated # <<>> =>
        /\ (Call.result /\ Call.tok \in Genuine) =>
               Call.tok.data.generation \in {Loaded, (Loaded + U32 - 1) % U32}
        /\ Verifies(Call.tok, snaps[Call.snap]) =>
               /\ Call.sessionChecked
               /\ Call.hashChecked

\* a token of the greatest generation is accepted under the snapshot of
\* generation 0, with a session that holds its id as secondary
AcceptedUnderWrappedGeneration ==
    /\ validated # <<>>
    /\ Call.result
    /\ Loaded = 0
    /\ Call.tok.data.generation = U32 - 1
    /\ Call.session.secondary # <<>>
    /\ Call.tok.data.session # SessionIdValue(Call.session.primary)

\* C37: a token issued at the greatest generation of the counter
\* validates, with any session that carries its id, after one rotate(),
\* which wraps the generation to 0, and is rejected after two, at
\* generation 1: as a token of any other generation is.
WrapAroundTolerance ==
    \A e \in Entries :
        (Presented(e) /\ e.tok.data.generation = U32 - 1) =>
            /\ RotationsSince(e, Call.snap) = 1 => (Call.result /\ Loaded = 0)
            /\ RotationsSince(e, Call.snap) = 2 => (~Call.result /\ Loaded = 1)

\* a token of the greatest generation has passed the generation pre-check
\* at generation 1 and is rejected for its hash
RejectedAfterWrapAndOneMore ==
    \E e \in Entries :
        /\ Presented(e)
        /\ e.tok.data.generation = U32 - 1
        /\ e.keySnap = e.ageSnap
        /\ RotationsSince(e, Call.snap) = 2
        /\ Loaded = 1
        /\ Call.hashChecked
        /\ ~Call.result

\* the generation, current key and previous key that are published
KeyMaterial == snaps[state[1]].key

\* C38: a validate() call changes nothing of the Tokenizer; a token() call,
\* also the one on_request makes, changes nothing but the age counter of a
\* snapshot; no step of on_request changes the published generation,
\* current key or previous key; and whenever these change, a rotate() call
\* has stored its snapshot.
OnlyRotateChangesKeys ==
    [][/\ (validated' # <<>> /\ validated' # validated) =>
              (snaps' = snaps /\ state' = state /\ handle' = handle)
       /\ held' # held =>
              /\ state' = state /\ handle' = handle
              /\ Len(snaps') = Len(snaps)
              /\ \A i \in DOMAIN snaps : snaps'[i].key = snaps[i].key
       /\ handled' # handled =>
              /\ state' = state /\ handle' = handle
              /\ Len(snaps') = Len(snaps)
              /\ \A i \in DOMAIN snaps : snaps'[i].key = snaps[i].key
       /\ KeyMaterial' # KeyMaterial =>
              \E r \in Callers : rot[r] # <<>> /\ rot'[r] = <<>>]_vars

\* on_request has admitted a request after a rotation: it has validated
\* the token and raised the age of the rotated snapshot, whose key is as
\* the rotation stored it
AdmittedAfterRotation ==
    /\ handled # <<>>
    /\ Handled.snap = 2
    /\ Unsafe
    /\ ~Redirected
    /\ ~Handled.panic
    /\ snaps[2].age = 1
    /\ KeyMaterial = RotatableRotate(snaps[1].key, 2)

\* the ids of the Session the fetch has returned
Kept == Range(SessionIter(Fetched.session))

\* C39: with the maximum age of three hours, an id aged three hours or
\* less (now - timestamp <= 10800 s) is fresh: fetch keeps it where its
\* cookie has it.  A primary id aged more than three and less than six
\* hours is demoted to secondary.  An id aged six hours or more, or whose
\* timestamp makes the subtraction overflow, is neither: it is in no
\* place of the Session; nor is a secondary id older than three hours.
FreshnessBoundaries ==
    fetch # <<>> =>
        /\ \A sid \in Held(Fetched.jar[PrimaryId]) :
              /\ (~Overflows(sid) /\ Elapsed(sid) <= 10800) =>
                    (Fetched.session.primary = sid /\ ~Fetched.minted)
              /\ (~Overflows(sid) /\ Elapsed(sid) > 10800
                                  /\ Elapsed(sid) < 21600) =>
                    /\ Fetched.session.secondary = <<sid>>
                    /\ Fetched.session.primary # sid
                    /\ Fetched.minted
              /\ (Overflows(sid) \/ Elapsed(sid) >= 21600) =>
                    (sid \notin Kept /\ Fetched.minted)
        /\ \A sid \in Held(Fetched.jar[SecondaryId]) :
              /\ (~Overflows(sid) /\ Elapsed(sid) <= 10800
                                  /\ SecondaryId \notin Fetched.written) =>
                    Fetched.session.secondary = <<sid>>
              /\ (Overflows(sid) \/ Elapsed(sid) > 10800) =>
                    (sid \in Kept => sid \in Held(Fetched.jar[PrimaryId]))

\* a primary id whose timestamp overflows the subtraction is discarded, and
\* a secondary id exactly three hours old is kept
OverflowDiscardedBoundaryKept ==
    /\ fetch # <<>>
    /\ \E sid \in Held(Fetched.jar[PrimaryId]) :
          Overflows(sid) /\ sid \notin Kept
    /\ \E other \in Held(Fetched.jar[SecondaryId]) :
          Elapsed(other) = 10800 /\ Fetched.session.secondary = <<other>>
    /\ Fetched.minted

====
